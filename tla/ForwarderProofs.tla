-------------------------- MODULE ForwarderProofs --------------------------
(***************************************************************************)
(* Proofs about Forwarder for every set of payloads, instances and shards, *)
(* every routing function and every limit.                                 *)
(***************************************************************************)
EXTENDS Forwarder, TLAPS, SequenceTheorems, FiniteSetTheorems,
        NaturalsInduction, WellFoundedInduction

\* A payload's shard is one of the sink's shards.
LEMMA HomeType == ASSUME NEW p \in Payloads PROVE Home(p) \in Shards
  BY ConstantsAssumption DEF Home, InstanceOf

-----------------------------------------------------------------------------
(* Type correctness.  A worker that counts a payload must hold one, so     *)
(* HeldOK is proved along with TypeOK.                                     *)

TypeInv == TypeOK /\ HeldOK

\* Type correctness of the callers' steps.
LEMMA CallerType ==
  ASSUME NEW p \in Payloads, TypeInv, Arrive(p) \/ Enqueue(p)
  PROVE  TypeInv'
<1> DEFINE s == Home(p)
<1>1. s \in Shards
  BY HomeType
<1>2. Size[p] \in Int
  BY ConstantsAssumption
<1> HIDE DEF s
<1>3. ASSUME NEW from, NEW to \in CallStates, Step(p, from, to) PROVE TypeInv'
  BY <1>3 DEF Step, TypeInv, TypeOK, HeldOK, workerVars
<1>4. CASE MarshalFails(p)
  BY <1>4 DEF MarshalFails, Outcomes, Drops, TypeInv, TypeOK, HeldOK,
              workerVars, CallStates
<1>5. CASE Reserve(p)
  BY <1>1, <1>2, <1>5
     DEF Reserve, TypeInv, TypeOK, HeldOK, workerVars, CallStates, s
<1>6. CASE Send(p)
  BY <1>1, <1>6 DEF Send, TypeInv, TypeOK, HeldOK, workerVars, CallStates, s
<1>7. CASE BackOut(p)
  BY <1>1, <1>2, <1>7
     DEF BackOut, TypeInv, TypeOK, HeldOK, workerVars, CallStates, s
<1>8. CASE EnterEnqueue(p) \/ RefuseClosed(p) \/ Resend(p)
           \/ RefuseBytes(p) \/ SendFull(p)
  BY <1>3, <1>8 DEF EnterEnqueue, RefuseClosed, Resend, RefuseBytes, SendFull,
                    CallStates
<1> QED BY <1>4, <1>5, <1>6, <1>7, <1>8 DEF Arrive, Enqueue

\* Type correctness of the worker's step shapes.
LEMMA MoveType ==
  ASSUME NEW s \in Shards, TypeInv, NEW from, NEW to \in WorkerStates,
         Move(s, from, to),
         from \in Holding \cup {"release"} <=> to \in Holding \cup {"release"}
  PROVE  TypeInv'
  BY DEF TypeInv, TypeOK, HeldOK, Move, callVars

LEMMA FinishType ==
  ASSUME NEW s \in Shards, TypeInv, NEW from \in Holding, NEW o \in Outcomes,
         Finish(s, from, o)
  PROVE  TypeInv'
<1>1. held[s] \in Payloads
  BY DEF TypeInv, TypeOK, HeldOK, Finish
<1>2. ended' \in [Shards -> Seq(Payloads)]
  BY <1>1 DEF TypeInv, TypeOK, Finish
<1>3. outcome' \in [Payloads -> Outcomes]
  BY <1>1 DEF TypeInv, TypeOK, Finish
<1>4. wpc' \in [Shards -> WorkerStates]
  BY DEF TypeInv, TypeOK, Finish, WorkerStates
<1>5. HeldOK'
  BY DEF TypeInv, TypeOK, HeldOK, Finish
<1> QED BY <1>2, <1>3, <1>4, <1>5 DEF TypeInv, TypeOK, Finish, callVars

LEMMA TakeType ==
  ASSUME NEW s \in Shards, TypeInv, NEW from, NEW to \in Holding,
         Take(s, from, to), late' \in [Shards -> Nat]
  PROVE  TypeInv'
<1>1. Head(queue[s]) \in Payloads /\ Tail(queue[s]) \in Seq(Payloads)
  BY HeadTailProperties DEF TypeInv, TypeOK, Take
<1>2. queue' \in [Shards -> Seq(Payloads)]
  BY <1>1 DEF TypeInv, TypeOK, Take
<1>3. held' \in [Shards -> Payloads \cup {NoItem}]
  BY <1>1 DEF TypeInv, TypeOK, Take
<1>4. wpc' \in [Shards -> WorkerStates]
  BY DEF TypeInv, TypeOK, Take, WorkerStates, Holding
<1>5. tries' \in [Shards -> 0..MaxRetries]
  BY LimitsAssumption DEF TypeInv, TypeOK, Take
<1>6. HeldOK'
  BY <1>1, ConstantsAssumption DEF TypeInv, TypeOK, HeldOK, Take
<1> QED BY <1>2, <1>3, <1>4, <1>5, <1>6 DEF TypeInv, TypeOK, Take, callVars

\* Type correctness of the worker's steps.
LEMMA WorkerType ==
  ASSUME NEW s \in Shards, TypeInv, Worker(s) \/ BackendProcesses(s)
  PROVE  TypeInv'
<1> USE DEF WorkerStates, Holding
<1>1. CASE Top(s)
  BY <1>1 DEF Top, TypeInv, TypeOK, HeldOK, callVars, Stopping
<1>2. CASE Receive(s)
  <2>1. late' \in [Shards -> Nat]
    BY <1>2 DEF Receive, TypeInv, TypeOK
  <2> QED BY <1>2, <2>1, TakeType DEF Receive
<1>3. CASE ReceiveStopping(s)
  BY <1>3 DEF ReceiveStopping, TypeInv, TypeOK, HeldOK, callVars
<1>4. CASE Deliver(s)
  <2>1. CASE BeginAttempt(s)
    BY <2>1, MoveType DEF BeginAttempt
  <2>2. CASE AttemptDelivered(s)
    BY <2>2, FinishType DEF AttemptDelivered, Outcomes
  <2>3. CASE AttemptPermanent(s)
    BY <2>3, FinishType DEF AttemptPermanent, Outcomes, Drops
  <2>4. CASE AttemptRetryable(s)
    BY <2>4, MoveType DEF AttemptRetryable
  <2>5. CASE FailedStopping(s)
    BY <2>5, MoveType DEF FailedStopping
  <2>6. CASE RetryExhausted(s)
    BY <2>6, FinishType DEF RetryExhausted, Outcomes, Drops
  <2>7. CASE RetryWait(s)
    BY <2>7, LimitsAssumption
       DEF RetryWait, MayWait, TypeInv, TypeOK, HeldOK, callVars
  <2>8. CASE WaitTimer(s)
    BY <2>8 DEF WaitTimer, TypeInv, TypeOK, HeldOK, callVars
  <2>9. CASE WaitStopping(s)
    BY <2>9, MoveType DEF WaitStopping
  <2> QED BY <1>4, <2>1, <2>2, <2>3, <2>4, <2>5, <2>6, <2>7, <2>8, <2>9
          DEF Deliver
<1>5. CASE FinalDeliveryAttempt(s)
  <2>1. CASE FinalDeadline(s)
    BY <2>1, FinishType DEF FinalDeadline, Outcomes, Drops
  <2>2. CASE FinalAttempt(s)
    BY <2>2 DEF FinalAttempt, TypeInv, TypeOK, HeldOK, callVars
  <2>3. CASE FinalDelivered(s)
    BY <2>3, FinishType DEF FinalDelivered, Outcomes
  <2>4. CASE FinalFailed(s)
    BY <2>4, FinishType DEF FinalFailed, Outcomes, Drops
  <2> QED BY <1>5, <2>1, <2>2, <2>3, <2>4 DEF FinalDeliveryAttempt
<1>6. CASE Release(s)
  <2>1. held[s] \in Payloads
    BY <1>6 DEF Release, TypeInv, TypeOK, HeldOK
  <2>2. Size[held[s]] \in Int
    BY <2>1, ConstantsAssumption
  <2> QED BY <1>6, <2>2 DEF Release, TypeInv, TypeOK, HeldOK, callVars
<1>7. CASE DrainTake(s)
  <2>1. late' \in [Shards -> Nat]
    BY <1>7 DEF DrainTake, TypeInv, TypeOK
  <2> QED BY <1>7, <2>1, TakeType DEF DrainTake
<1>8. CASE DrainDone(s)
  BY <1>8, MoveType DEF DrainDone
<1>9. CASE BackendProcesses(s)
  BY <1>9 DEF BackendProcesses, TypeInv, TypeOK, HeldOK, callVars
<1> QED BY <1>1, <1>2, <1>3, <1>4, <1>5, <1>6, <1>7, <1>8, <1>9 DEF Worker

\* Type correctness of every step.
LEMMA TypeStep == TypeInv /\ [Next]_vars => TypeInv'
<1> SUFFICES ASSUME TypeInv, [Next]_vars PROVE TypeInv'
  OBVIOUS
<1>1. ASSUME NEW state \in ShutdownStates, SetShutdown(state) PROVE TypeInv'
  BY <1>1 DEF SetShutdown, TypeInv, TypeOK, HeldOK, callVars, workerVars
<1>2. CASE ShutdownCall \/ ShutdownDeadline \/ Shutdown
  BY <1>1, <1>2 DEF ShutdownCall, ShutdownDeadline, Shutdown, ShutdownClose,
                    ShutdownStop, ShutdownReturn, ShutdownStates
<1>3. CASE UNCHANGED vars
  BY <1>3 DEF vars, TypeInv, TypeOK, HeldOK
<1> QED BY <1>2, <1>3, CallerType, WorkerType DEF Next, Terminated

\* Every variable of the sink keeps its type: in particular a worker that
\* counts an outcome always holds a payload, and never waits more often
\* than the retry budget allows.
THEOREM TypeCorrect == Spec => []TypeOK
<1>1. Init => TypeInv
  BY LimitsAssumption DEF Init, TypeInv, TypeOK, HeldOK, CallStates, WorkerStates,
     ShutdownStates, Outcomes, Drops, Holding
<1>2. TypeInv => TypeOK
  BY DEF TypeInv
<1> QED BY <1>1, <1>2, TypeStep, PTL DEF Spec

-----------------------------------------------------------------------------
(* The lock, the stopping channel and the workers' program points agree.   *)

\* A worker touches its own shard only, and neither the calls nor Shutdown.
LEMMA WorkerFrame ==
  ASSUME NEW s \in Shards, TypeInv, Worker(s) \/ BackendProcesses(s)
  PROVE  /\ UNCHANGED <<call, accepted, sd>>
         /\ \A t \in Shards \ {s} :
               /\ wpc'[t] = wpc[t] /\ held'[t] = held[t]
               /\ draining'[t] = draining[t] /\ queue'[t] = queue[t]
               /\ ended'[t] = ended[t] /\ bytes'[t] = bytes[t]
  BY DEF TypeInv, TypeOK,
     Worker, BackendProcesses, Top, Receive, ReceiveStopping, Take, Move,
     Finish, Deliver, FinalDeliveryAttempt, BeginAttempt, AttemptDelivered,
     AttemptPermanent, AttemptRetryable, FailedStopping, RetryExhausted,
     RetryWait, WaitTimer, WaitStopping, FinalDeadline, FinalAttempt,
     FinalDelivered, FinalFailed, Release, DrainTake, DrainDone, callVars

\* One shard's part of Coherent.
ShardCoherent(s) ==
    /\ wpc[s] \in {"final", "finalinflight", "drain", "exited"} => Stopping
    /\ draining[s] => Stopping
    /\ wpc[s] = "exited" => queue[s] = <<>>

LEMMA WorkerCoherent ==
  ASSUME NEW s \in Shards, TypeInv, Coherent, Worker(s) \/ BackendProcesses(s)
  PROVE  Coherent'
<1>1. HeldOK'
  BY WorkerType DEF TypeInv
<1>2. UNCHANGED <<call, sd>>
  BY WorkerFrame
<1>3. \A t \in Shards \ {s} : ShardCoherent(t)'
  BY WorkerFrame DEF Coherent, ShardCoherent, Stopping
<1>4. wpc[s] # "exited"
  BY DEF TypeInv, TypeOK,
     Worker, BackendProcesses, Top, Receive, ReceiveStopping, Take, Move,
     Finish, Deliver, FinalDeliveryAttempt, BeginAttempt, AttemptDelivered,
     AttemptPermanent, AttemptRetryable, FailedStopping, RetryExhausted,
     RetryWait, WaitTimer, WaitStopping, FinalDeadline, FinalAttempt,
     FinalDelivered, FinalFailed, Release, DrainTake, DrainDone
<1>5. ShardCoherent(s)'
  <2> USE DEF Coherent, ShardCoherent, Stopping, TypeInv, TypeOK
  <2>1. CASE Top(s) \/ ReceiveStopping(s)
    BY <2>1 DEF Top, ReceiveStopping
  <2>2. CASE Receive(s) \/ DrainTake(s)
    BY <2>2 DEF Receive, DrainTake, Take
  <2>3. CASE Deliver(s)
    BY <2>3 DEF Deliver, Move, Finish, BeginAttempt, AttemptDelivered,
       AttemptPermanent, AttemptRetryable, FailedStopping, RetryExhausted,
       RetryWait, WaitTimer, WaitStopping
  <2>4. CASE FinalDeliveryAttempt(s)
    BY <2>4 DEF FinalDeliveryAttempt, Finish, FinalDeadline, FinalAttempt,
       FinalDelivered, FinalFailed
  <2>5. CASE Release(s)
    BY <2>5 DEF Release
  <2>6. CASE DrainDone(s)
    BY <2>6 DEF DrainDone, Move
  <2>7. CASE BackendProcesses(s)
    BY <2>7 DEF BackendProcesses
  <2> QED BY <2>1, <2>2, <2>3, <2>4, <2>5, <2>6, <2>7 DEF Worker
<1>6. sd # "returned"
  BY <1>4 DEF Coherent
<1> QED BY <1>1, <1>2, <1>3, <1>5, <1>6
        DEF Coherent, ShardCoherent, Closed, Readers

LEMMA CallerCoherent ==
  ASSUME NEW p \in Payloads, TypeInv, Coherent, Arrive(p) \/ Enqueue(p)
  PROVE  Coherent'
<1>1. HeldOK'
  BY CallerType DEF TypeInv
<1>2. UNCHANGED <<sd, wpc, draining>>
  BY DEF Arrive, MarshalFails, EnterEnqueue, RefuseClosed, Resend, Enqueue,
     Reserve, RefuseBytes, Send, SendFull, BackOut, Step, workerVars
<1>3. CASE Closed
  <2>1. p \notin Readers
    BY <1>3 DEF Coherent
  <2>2. UNCHANGED queue /\ p \notin Readers'
    BY <1>3, <2>1 DEF TypeInv, TypeOK, Readers,
       Arrive, MarshalFails, EnterEnqueue, RefuseClosed, Resend, Enqueue,
       Reserve, RefuseBytes, Send, SendFull, BackOut, Step, workerVars
  <2>3. \A q \in Payloads \ {p} : call'[q] = call[q]
    BY DEF TypeInv, TypeOK,
       Arrive, MarshalFails, EnterEnqueue, RefuseClosed, Resend, Enqueue,
       Reserve, RefuseBytes, Send, SendFull, BackOut, Step
  <2> QED BY <1>1, <1>2, <1>3, <2>2, <2>3 DEF Coherent, Readers, Stopping
<1>4. CASE ~ Closed
  BY <1>1, <1>2, <1>4 DEF Coherent, Closed, Stopping
<1> QED BY <1>3, <1>4

\* Every step keeps the lock, the channel and the workers in agreement.
LEMMA CoherentStep == TypeInv /\ Coherent /\ [Next]_vars => Coherent'
<1> SUFFICES ASSUME TypeInv, Coherent, [Next]_vars PROVE Coherent'
  OBVIOUS
<1>1. CASE ShutdownCall \/ ShutdownDeadline \/ Shutdown
  <2>1. UNCHANGED <<call, queue, wpc, held, draining>>
    BY <1>1 DEF ShutdownCall, ShutdownDeadline, Shutdown, ShutdownClose,
       ShutdownStop, ShutdownReturn, SetShutdown, callVars, workerVars
  <2>2. /\ Stopping => Stopping'
        /\ Closed' => Readers = {}
        /\ sd' = "returned" => \A s \in Shards : wpc[s] = "exited"
    BY <1>1 DEF ShutdownCall, ShutdownDeadline, Shutdown, ShutdownClose,
       ShutdownStop, ShutdownReturn, SetShutdown, Coherent, Closed, Stopping
  <2> QED BY <2>1, <2>2 DEF Coherent, HeldOK, Readers
<1>2. CASE UNCHANGED vars
  BY <1>2 DEF vars, Coherent, HeldOK, Readers, Closed, Stopping
<1> QED BY <1>1, <1>2, CallerCoherent, WorkerCoherent DEF Next, Terminated

-----------------------------------------------------------------------------
(* Conservation.                                                           *)

\* Concatenation of sequences of payloads is associative.
LEMMA ConcatAssoc ==
  \A a, b, c \in Seq(Payloads) : a \o b \o c = a \o (b \o c)
<1> TAKE a, b, c \in Seq(Payloads)
<1> QED BY ConcatAssociative

\* Appending to a concatenation appends to its last part.
LEMMA AppendLast ==
  \A a, b, c \in Seq(Payloads), x \in Payloads :
      Append(a \o b \o c, x) = a \o b \o Append(c, x)
<1> TAKE a, b, c \in Seq(Payloads), x \in Payloads
<1> DEFINE ab == a \o b
<1>1. ab \in Seq(Payloads) /\ <<x>> \in Seq(Payloads)
  BY ConcatProperties
<1> HIDE DEF ab
<1>2. ab \o c \in Seq(Payloads)
  BY <1>1, ConcatProperties
<1>3. Append(ab \o c, x) = ab \o c \o <<x>>
  BY <1>2, AppendIsConcat
<1>4. Append(c, x) = c \o <<x>>
  BY AppendIsConcat
<1>5. ab \o c \o <<x>> = ab \o (c \o <<x>>)
  BY <1>1, ConcatAssoc, Zenon
<1> QED BY <1>3, <1>4, <1>5, Zenon DEF ab

\* Taking the head moves it from the last part to the middle one.
LEMMA HeadToMiddle ==
  ASSUME NEW S, NEW a \in Seq(S), NEW c \in Seq(S), c # <<>>
  PROVE  a \o <<>> \o c = a \o <<Head(c)>> \o Tail(c)
<1>1. Head(c) \in S /\ Tail(c) \in Seq(S) /\ <<Head(c)>> \in Seq(S)
  BY HeadTailProperties
<1>2. c = <<Head(c)>> \o Tail(c)
  BY <1>1
<1>3. a \o <<>> = a
  BY ConcatEmptySeq
<1> QED BY <1>1, <1>2, <1>3, ConcatAssociative

\* Finishing the middle part moves it to the first one.
LEMMA MiddleToFirst ==
  ASSUME NEW S, NEW a \in Seq(S), NEW x \in S
  PROVE  a \o <<x>> = Append(a, x) \o <<>>
  BY AppendIsConcat, ConcatEmptySeq, AppendProperties

ShardConserved(s) == accepted[s] = ended[s] \o InHand(s) \o queue[s]

LEMMA WorkerConserves ==
  ASSUME NEW s \in Shards, TypeInv, Conserved, Worker(s) \/ BackendProcesses(s)
  PROVE  Conserved'
<1> USE DEF Holding
<1>1. \A t \in Shards \ {s} : ShardConserved(t)'
  BY WorkerFrame DEF Conserved, ShardConserved, InHand
<1>2. accepted'[s] = accepted[s]
  BY WorkerFrame
<1>3. ShardConserved(s)
  BY DEF Conserved, ShardConserved
<1>4. ended[s] \in Seq(Payloads) /\ queue[s] \in Seq(Payloads)
  BY DEF TypeInv, TypeOK
<1>5. ASSUME ended'[s] = ended[s], queue'[s] = queue[s], InHand(s)' = InHand(s)
      PROVE  ShardConserved(s)'
  BY <1>2, <1>3, <1>5 DEF ShardConserved
<1>6. ASSUME NEW from \in {"recv", "drain"}, NEW to \in Holding, Take(s, from, to)
      PROVE  ShardConserved(s)'
  <2>1. queue[s] # <<>> /\ InHand(s) = <<>>
    BY <1>6 DEF Take, InHand
  <2>2. InHand(s)' = <<Head(queue[s])>> /\ queue'[s] = Tail(queue[s])
    BY <1>6 DEF Take, InHand, TypeInv, TypeOK
  <2>3. ended'[s] = ended[s]
    BY <1>6 DEF Take
  <2> QED BY <1>2, <1>3, <1>4, <2>1, <2>2, <2>3, HeadToMiddle DEF ShardConserved
<1>7. ASSUME NEW from \in Holding, NEW o, Finish(s, from, o)
      PROVE  ShardConserved(s)'
  <2>1. InHand(s) = <<held[s]>> /\ held[s] \in Payloads
    BY <1>7 DEF Finish, InHand, TypeInv, TypeOK, HeldOK
  <2>2. InHand(s)' = <<>> /\ queue'[s] = queue[s]
    BY <1>7 DEF Finish, InHand, TypeInv, TypeOK
  <2>3. ended'[s] = Append(ended[s], held[s])
    BY <1>7 DEF Finish, TypeInv, TypeOK
  <2>4. ended[s] \o <<held[s]>> = Append(ended[s], held[s]) \o <<>>
    BY <1>4, <2>1, MiddleToFirst
  <2>5. accepted[s] = ended[s] \o <<held[s]>> \o queue[s]
    BY <1>3, <2>1 DEF ShardConserved
  <2> QED BY <1>2, <2>2, <2>3, <2>4, <2>5, Zenon DEF ShardConserved
<1>8. ASSUME NEW from, NEW to, Move(s, from, to), from \in Holding <=> to \in Holding
      PROVE  ShardConserved(s)'
  BY <1>5, <1>8 DEF Move, InHand, TypeInv, TypeOK
<1>9. ShardConserved(s)'
  <2>1. CASE Top(s) \/ ReceiveStopping(s)
    BY <1>5, <2>1 DEF Top, ReceiveStopping, InHand, TypeInv, TypeOK
  <2>2. CASE Receive(s) \/ DrainTake(s)
    BY <1>6, <2>2 DEF Receive, DrainTake
  <2>3. CASE BeginAttempt(s) \/ AttemptRetryable(s) \/ FailedStopping(s)
             \/ WaitStopping(s) \/ DrainDone(s)
    BY <1>8, <2>3
       DEF BeginAttempt, AttemptRetryable, FailedStopping, WaitStopping, DrainDone
  <2>4. CASE AttemptDelivered(s) \/ AttemptPermanent(s) \/ RetryExhausted(s)
             \/ FinalDeadline(s) \/ FinalDelivered(s) \/ FinalFailed(s)
    BY <1>7, <2>4 DEF AttemptDelivered, AttemptPermanent, RetryExhausted,
                      FinalDeadline, FinalDelivered, FinalFailed
  <2>5. CASE RetryWait(s) \/ WaitTimer(s) \/ FinalAttempt(s)
    BY <1>5, <2>5 DEF RetryWait, WaitTimer, FinalAttempt, InHand, TypeInv, TypeOK
  <2>6. CASE Release(s)
    BY <1>5, <2>6 DEF Release, InHand, TypeInv, TypeOK
  <2>7. CASE BackendProcesses(s)
    BY <1>5, <2>7 DEF BackendProcesses, InHand
  <2> QED BY <2>1, <2>2, <2>3, <2>4, <2>5, <2>6, <2>7
          DEF Worker, Deliver, FinalDeliveryAttempt
<1> QED BY <1>1, <1>9 DEF Conserved, ShardConserved

LEMMA CallerConserves ==
  ASSUME NEW p \in Payloads, TypeInv, Conserved, Arrive(p) \/ Enqueue(p)
  PROVE  Conserved'
<1>1. CASE Send(p)
  <2> SUFFICES ASSUME NEW s \in Shards PROVE ShardConserved(s)'
    BY DEF Conserved, ShardConserved
  <2>1. InHand(s)' = InHand(s) /\ ended'[s] = ended[s]
    BY <1>1 DEF Send, InHand, workerVars
  <2>2. ShardConserved(s)
    BY DEF Conserved, ShardConserved
  <2>3. CASE s = Home(p)
    <3>1. /\ accepted'[s] = Append(accepted[s], p)
          /\ queue'[s] = Append(queue[s], p)
      BY <1>1, <2>3 DEF Send, TypeInv, TypeOK
    <3>2. ended[s] \in Seq(Payloads) /\ queue[s] \in Seq(Payloads)
      BY DEF TypeInv, TypeOK
    <3>3. InHand(s) \in Seq(Payloads)
      BY DEF InHand, Holding, TypeInv, TypeOK, HeldOK
    <3>4. Append(ended[s] \o InHand(s) \o queue[s], p)
            = ended[s] \o InHand(s) \o Append(queue[s], p)
      BY <3>2, <3>3, AppendLast, Zenon
    <3> QED BY <2>1, <2>2, <3>1, <3>4, Zenon DEF ShardConserved
  <2>4. CASE s # Home(p)
    BY <1>1, <2>1, <2>2, <2>4 DEF Send, ShardConserved, TypeInv, TypeOK
  <2> QED BY <2>3, <2>4
<1>2. CASE ~ Send(p)
  <2>1. UNCHANGED <<accepted, queue, ended, held, wpc>>
    BY <1>2 DEF Arrive, MarshalFails, EnterEnqueue, RefuseClosed, Resend, Enqueue,
       Reserve, RefuseBytes, SendFull, BackOut, Step, workerVars
  <2> QED BY <2>1 DEF Conserved, InHand
<1> QED BY <1>1, <1>2

\* Every step conserves the accepted payloads and their order.
LEMMA ConservedStep == TypeInv /\ Conserved /\ [Next]_vars => Conserved'
<1> SUFFICES ASSUME TypeInv, Conserved, [Next]_vars PROVE Conserved'
  OBVIOUS
<1>1. CASE ShutdownCall \/ ShutdownDeadline \/ Shutdown \/ UNCHANGED vars
  BY <1>1 DEF ShutdownCall, ShutdownDeadline, Shutdown, ShutdownClose, ShutdownStop,
     ShutdownReturn, SetShutdown, callVars, workerVars, vars, Conserved, InHand
<1> QED BY <1>1, CallerConserves, WorkerConserves DEF Next, Terminated

IInv == TypeInv /\ Coherent /\ Conserved

LEMMA IInvInit == Init => IInv
<1> SUFFICES ASSUME Init PROVE IInv
  OBVIOUS
<1>1. TypeInv
  BY LimitsAssumption DEF Init, TypeInv, TypeOK, HeldOK, CallStates, WorkerStates,
     ShutdownStates, Outcomes, Drops, Holding
<1>2. Coherent
  BY <1>1 DEF Init, TypeInv, Coherent, Closed, Stopping, Readers
<1>3. Conserved
  BY ConcatEmptySeq, EmptySeq DEF Init, Conserved, InHand, Holding
<1> QED BY <1>1, <1>2, <1>3 DEF IInv

LEMMA IInvStep == IInv /\ [Next]_vars => IInv'
  BY TypeStep, CoherentStep, ConservedStep DEF IInv

LEMMA Invariance == Spec => []IInv
  BY IInvInit, IInvStep, PTL DEF Spec

\* No accepted payload is lost, duplicated or reordered, for any number of
\* callers, shards and retries and at every point of a shutdown.
THEOREM ConservedAlways == Spec => []Conserved
<1>1. IInv => Conserved
  BY DEF IInv
<1> QED BY <1>1, Invariance, PTL

\* The worker, the stop channel and the call of Shutdown stay in step: what
\* the worker holds fits where it stands, nobody enqueues once the sink is
\* closed to callers, and workers wind down only after the stop.
THEOREM CoherentAlways == Spec => []Coherent
<1>1. IInv => Coherent
  BY DEF IInv
<1> QED BY <1>1, Invariance, PTL

\* With every worker gone nothing is in hand or queued, so what was accepted
\* has ended.
LEMMA IInvNothingLeft == IInv => NothingLeftBehind
<1> SUFFICES ASSUME IInv, sd = "returned", NEW s \in Shards
             PROVE  wpc[s] = "exited" /\ ended[s] = accepted[s]
  BY DEF NothingLeftBehind
<1>1. wpc[s] = "exited" /\ queue[s] = <<>> /\ InHand(s) = <<>>
  BY DEF IInv, Coherent, InHand, Holding
<1>2. accepted[s] = ended[s] \o <<>> \o <<>>
  BY <1>1 DEF IInv, Conserved
<1>3. ended[s] \in Seq(Payloads)
  BY DEF IInv, TypeInv, TypeOK
<1> QED BY <1>1, <1>2, <1>3, ConcatEmptySeq

\* A returned Shutdown leaves no accepted payload without an outcome.
THEOREM NothingLeftBehindAlways == Spec => []NothingLeftBehind
  BY IInvNothingLeft, Invariance, PTL

-----------------------------------------------------------------------------
(* The attempts made after stopping was closed.                            *)

\* How many of the attempts at the held payload were decided on after
\* stopping was closed, at each program point.  deliver enters a wait only
\* while it is open, so one timer at most can beat the channel.
ShardLate(s) ==
    /\ ~ Stopping => late[s] = 0
    /\ wpc[s] = "wait" => late[s] = 0
    /\ wpc[s] \in {"attempt", "inflight", "failed", "final"} => late[s] <= 1
    /\ late[s] <= 2

LateInv == \A s \in Shards : ShardLate(s)

LEMMA LateStep == TypeInv /\ Coherent /\ LateInv /\ [Next]_vars => LateInv'
<1> SUFFICES ASSUME TypeInv, Coherent, LateInv, [Next]_vars PROVE LateInv'
  OBVIOUS
<1>1. CASE UNCHANGED <<wpc, late>> /\ (Stopping => Stopping')
  BY <1>1 DEF LateInv, ShardLate
<1>2. CASE ShutdownCall \/ ShutdownDeadline \/ Shutdown \/ UNCHANGED vars
  BY <1>1, <1>2 DEF ShutdownCall, ShutdownDeadline, Shutdown, ShutdownClose,
     ShutdownStop, ShutdownReturn, SetShutdown, workerVars, vars, Stopping
<1>3. ASSUME NEW p \in Payloads, Arrive(p) \/ Enqueue(p) PROVE LateInv'
  BY <1>1, <1>3 DEF Arrive, MarshalFails, EnterEnqueue, RefuseClosed, Resend,
     Enqueue, Reserve, RefuseBytes, Send, SendFull, BackOut, Step, workerVars,
     Stopping
<1>4. ASSUME NEW s \in Shards, Worker(s) \/ BackendProcesses(s) PROVE LateInv'
  <2>1. UNCHANGED sd
    BY <1>4, WorkerFrame
  <2>2. \A t \in Shards \ {s} : wpc'[t] = wpc[t] /\ late'[t] = late[t]
    BY <1>4 DEF TypeInv, TypeOK,
       Worker, BackendProcesses, Top, Receive, ReceiveStopping, Take, Move,
       Finish, Deliver, FinalDeliveryAttempt, BeginAttempt, AttemptDelivered,
       AttemptPermanent, AttemptRetryable, FailedStopping, RetryExhausted,
       RetryWait, WaitTimer, WaitStopping, FinalDeadline, FinalAttempt,
       FinalDelivered, FinalFailed, Release, DrainTake, DrainDone
  <2>3. ShardLate(s) /\ late[s] \in Nat
    BY DEF LateInv, TypeInv, TypeOK
  <2>4. ShardLate(s)'
    <3> USE <2>1, <2>3 DEF ShardLate, TypeInv, TypeOK, Stopping
    <3>0. CASE Receive(s)
      BY <3>0 DEF Receive, Take
    <3>1. CASE DrainTake(s)
      BY <3>1 DEF DrainTake, Take
    <3>2. CASE WaitTimer(s)
      BY <3>2 DEF WaitTimer
    <3>3. CASE RetryWait(s)
      BY <3>3 DEF RetryWait, MayWait
    <3>4. CASE FinalAttempt(s)
      BY <3>4 DEF FinalAttempt, Coherent
    <3>5. CASE Top(s) \/ ReceiveStopping(s) \/ Release(s) \/ BackendProcesses(s)
      BY <3>5 DEF Top, ReceiveStopping, Release, BackendProcesses
    <3>6. CASE BeginAttempt(s) \/ AttemptRetryable(s) \/ FailedStopping(s)
               \/ WaitStopping(s) \/ DrainDone(s)
      BY <3>6 DEF BeginAttempt, AttemptRetryable, FailedStopping, WaitStopping,
         DrainDone, Move
    <3>7. CASE AttemptDelivered(s) \/ AttemptPermanent(s) \/ RetryExhausted(s)
               \/ FinalDeadline(s) \/ FinalDelivered(s) \/ FinalFailed(s)
      BY <3>7 DEF AttemptDelivered, AttemptPermanent, RetryExhausted,
         FinalDeadline, FinalDelivered, FinalFailed, Finish
    <3> QED BY <1>4, <3>0, <3>1, <3>2, <3>3, <3>4, <3>5, <3>6, <3>7
            DEF Worker, Deliver, FinalDeliveryAttempt
  <2> QED BY <2>1, <2>2, <2>4 DEF LateInv, ShardLate, Stopping
<1> QED BY <1>2, <1>3, <1>4 DEF Next, Terminated

\* Shutdown cuts every retry sequence short: whichever way the selects of
\* runShard and deliver fall, a payload is attempted at most twice more.
THEOREM AttemptsAfterShutdownAlways == Spec => []AttemptsAfterShutdown
<1>1. Init => LateInv
  BY DEF Init, LateInv, ShardLate
<1>2. LateInv => AttemptsAfterShutdown
  BY DEF LateInv, ShardLate, AttemptsAfterShutdown
<1>3. IInv => TypeInv /\ Coherent
  BY DEF IInv
<1> QED BY <1>1, <1>2, <1>3, LateStep, Invariance, PTL DEF Spec

-----------------------------------------------------------------------------
(* The byte budget.                                                        *)

\* A worker only ever lowers its shard's byte count, and only release does.
LEMMA WorkerLowersBytes ==
  ASSUME NEW s \in Shards, TypeInv, Worker(s) \/ BackendProcesses(s)
  PROVE  \A t \in Shards : bytes'[t] <= bytes[t]
<1>1. CASE Release(s)
  <2>1. held[s] \in Payloads
    BY <1>1 DEF Release, TypeInv, TypeOK, HeldOK
  <2>2. Size[held[s]] \in Nat
    BY <2>1, ConstantsAssumption
  <2> QED BY <1>1, <2>2 DEF Release, TypeInv, TypeOK
<1>2. CASE ~ Release(s)
  <2>1. bytes' = bytes
    BY <1>2 DEF
       Worker, BackendProcesses, Top, Receive, ReceiveStopping, Take, Move,
       Finish, Deliver, FinalDeliveryAttempt, BeginAttempt, AttemptDelivered,
       AttemptPermanent, AttemptRetryable, FailedStopping, RetryExhausted,
       RetryWait, WaitTimer, WaitStopping, FinalDeadline, FinalAttempt,
       FinalDelivered, FinalFailed, DrainTake, DrainDone
  <2> QED BY <2>1 DEF TypeInv, TypeOK
<1> QED BY <1>1, <1>2

\* One step keeps the byte bound.
LEMMA BytesStep == TypeInv /\ BytesBounded /\ [Next]_vars => BytesBounded'
<1> SUFFICES ASSUME TypeInv, BytesBounded, [Next]_vars PROVE BytesBounded'
  OBVIOUS
<1>1. \A p \in Payloads : Size[p] \in Nat /\ Home(p) \in Shards
  BY ConstantsAssumption, HomeType
<1>2. ASSUME \A t \in Shards : bytes'[t] <= bytes[t], TypeInv' PROVE BytesBounded'
  <2> SUFFICES ASSUME NEW t \in Shards
               PROVE  \/ bytes'[t] <= QueueBytes
                      \/ \E p \in Payloads : bytes'[t] <= Size[p]
    BY DEF BytesBounded
  <2>1. bytes[t] \in Int /\ bytes'[t] \in Int /\ bytes'[t] <= bytes[t]
    BY <1>2 DEF TypeInv, TypeOK
  <2>2. bytes[t] <= QueueBytes \/ \E p \in Payloads : bytes[t] <= Size[p]
    BY DEF BytesBounded
  <2> QED BY <1>1, <2>1, <2>2, LimitsAssumption
<1>3. TypeInv'
  BY TypeStep
<1>4. CASE UNCHANGED bytes
  BY <1>4 DEF BytesBounded
<1>5. ASSUME NEW p \in Payloads, Reserve(p) PROVE BytesBounded'
  <2>1. ASSUME NEW t \in Shards
        PROVE  bytes'[t] <= QueueBytes \/ \E q \in Payloads : bytes'[t] <= Size[q]
    <3>1. CASE t = Home(p)
      <4>1. bytes'[t] = bytes[t] + Size[p]
        BY <1>5, <3>1 DEF Reserve, TypeInv, TypeOK
      <4>2. bytes[t] <= 0 \/ bytes[t] + Size[p] <= QueueBytes
        BY <1>1, <1>5, <3>1, LimitsAssumption DEF Reserve, Fits, TypeInv, TypeOK
      <4> QED BY <1>1, <4>1, <4>2, LimitsAssumption DEF TypeInv, TypeOK
    <3>2. CASE t # Home(p)
      BY <1>5, <3>2 DEF Reserve, BytesBounded, TypeInv, TypeOK
    <3> QED BY <3>1, <3>2
  <2> QED BY <2>1 DEF BytesBounded
<1>6. ASSUME NEW p \in Payloads, BackOut(p) PROVE BytesBounded'
  <2>1. \A t \in Shards : bytes'[t] <= bytes[t]
    BY <1>1, <1>6 DEF BackOut, TypeInv, TypeOK
  <2> QED BY <1>2, <1>3, <2>1
<1>7. ASSUME NEW p \in Payloads, Arrive(p) \/ Enqueue(p) PROVE BytesBounded'
  <2>1. CASE ~ (Reserve(p) \/ BackOut(p))
    BY <1>4, <1>7, <2>1 DEF Arrive, MarshalFails, EnterEnqueue, RefuseClosed,
       Resend, Enqueue, RefuseBytes, Send, SendFull, Step
  <2> QED BY <1>5, <1>6, <2>1
<1>8. ASSUME NEW s \in Shards, Worker(s) \/ BackendProcesses(s) PROVE BytesBounded'
  BY <1>2, <1>3, <1>8, WorkerLowersBytes
<1>9. CASE ShutdownCall \/ ShutdownDeadline \/ Shutdown \/ UNCHANGED vars
  BY <1>4, <1>9 DEF ShutdownCall, ShutdownDeadline, Shutdown, ShutdownClose,
     ShutdownStop, ShutdownReturn, SetShutdown, vars
<1> QED BY <1>7, <1>8, <1>9 DEF Next, Terminated

\* However the callers interleave, a shard never holds more bytes than the
\* larger of its budget and one payload.
THEOREM BytesBoundedAlways == Spec => []BytesBounded
<1>1. Init => BytesBounded
  BY LimitsAssumption DEF Init, BytesBounded
<1>2. IInv => TypeInv
  BY DEF IInv
<1> QED BY <1>1, <1>2, BytesStep, Invariance, PTL DEF Spec

-----------------------------------------------------------------------------
(* Each payload is accepted and counted once.                              *)

\* What a concatenation of sequences of payloads holds.
LEMMA ConcatFacts ==
  \A a, b \in Seq(Payloads) :
      /\ a \o b \in Seq(Payloads)
      /\ Len(a) \in Nat /\ Len(b) \in Nat
      /\ Len(a \o b) = Len(a) + Len(b)
      /\ DOMAIN (a \o b) = 1 .. Len(a) + Len(b)
      /\ \A i \in 1 .. Len(a) + Len(b) :
            (a \o b)[i] = IF i <= Len(a) THEN a[i] ELSE b[i - Len(a)]
<1> TAKE a, b \in Seq(Payloads)
<1>1. a \o b \in Seq(Payloads) /\ Len(a \o b) = Len(a) + Len(b)
  BY ConcatProperties
<1>2. DOMAIN (a \o b) = 1 .. Len(a \o b) /\ Len(a) \in Nat /\ Len(b) \in Nat
  BY <1>1, LenProperties
<1>3. \A i \in 1 .. Len(a) + Len(b) :
         (a \o b)[i] = IF i <= Len(a) THEN a[i] ELSE b[i - Len(a)]
  BY ConcatProperties
<1> QED BY <1>1, <1>2, <1>3

\* The payload a worker holds is the oldest accepted one without an outcome.
LEMMA HeldIsNext ==
  ASSUME IInv, NEW s \in Shards, wpc[s] \in Holding
  PROVE  /\ held[s] \in Payloads
         /\ Len(ended[s]) \in Nat
         /\ Len(ended[s]) + 1 \in DOMAIN accepted[s]
         /\ Len(ended[s]) + 1 <= Len(accepted[s])
         /\ accepted[s][Len(ended[s]) + 1] = held[s]
         /\ \A i \in DOMAIN ended[s] : i \in DOMAIN accepted[s]
                                      /\ accepted[s][i] = ended[s][i]
<1> DEFINE e == ended[s]
           h == <<held[s]>>
           q == queue[s]
<1>1. held[s] \in Payloads
  BY DEF IInv, TypeInv, TypeOK, HeldOK
<1>2. e \in Seq(Payloads) /\ h \in Seq(Payloads) /\ q \in Seq(Payloads)
  BY <1>1 DEF IInv, TypeInv, TypeOK
<1>3. accepted[s] = e \o h \o q
  BY DEF IInv, Conserved, InHand
<1>4. Len(h) = 1 /\ h[1] = held[s]
  OBVIOUS
<1> HIDE DEF e, h, q
<1>5. /\ e \o h \in Seq(Payloads)
      /\ Len(e \o h) = Len(e) + 1
      /\ \A i \in 1 .. Len(e) + 1 :
            (e \o h)[i] = IF i <= Len(e) THEN e[i] ELSE h[i - Len(e)]
  BY <1>2, <1>4, ConcatFacts
<1>6. /\ Len(e \o h \o q) = Len(e) + 1 + Len(q)
      /\ \A i \in 1 .. Len(e) + 1 : (e \o h \o q)[i] = (e \o h)[i]
      /\ DOMAIN (e \o h \o q) = 1 .. Len(e) + 1 + Len(q)
  <2> DEFINE eh == e \o h
  <2>1. eh \in Seq(Payloads) /\ Len(eh) = Len(e) + 1
    BY <1>5
  <2> HIDE DEF eh
  <2>2. Len(e) \in Nat /\ Len(q) \in Nat
    BY <1>2, LenProperties
  <2>3. /\ Len(eh \o q) = Len(e) + 1 + Len(q)
        /\ \A i \in 1 .. Len(e) + 1 : (eh \o q)[i] = eh[i]
        /\ DOMAIN (eh \o q) = 1 .. Len(e) + 1 + Len(q)
    <3>1. /\ Len(eh \o q) = Len(eh) + Len(q)
          /\ DOMAIN (eh \o q) = 1 .. Len(eh) + Len(q)
          /\ \A i \in 1 .. Len(eh) + Len(q) :
                (eh \o q)[i] = IF i <= Len(eh) THEN eh[i] ELSE q[i - Len(eh)]
      BY <1>2, <2>1, ConcatFacts, Zenon
    <3>2. \A i \in 1 .. Len(e) + 1 :
            i \in 1 .. Len(eh) + Len(q) /\ i <= Len(eh)
      BY <2>1, <2>2
    <3>3. \A i \in 1 .. Len(e) + 1 : (eh \o q)[i] = eh[i]
      BY <3>1, <3>2, Zenon
    <3> QED BY <2>1, <3>1, <3>3
  <2> QED BY <2>3, Zenon DEF eh
<1>7. Len(e) \in Nat /\ Len(q) \in Nat /\ DOMAIN e = 1 .. Len(e)
  BY <1>2, LenProperties
<1>8. accepted[s][Len(e) + 1] = held[s]
  BY <1>3, <1>4, <1>5, <1>6, <1>7
<1>9. /\ Len(e) + 1 \in DOMAIN accepted[s]
      /\ Len(e) + 1 <= Len(accepted[s])
  BY <1>3, <1>6, <1>7
<1>10. \A i \in DOMAIN e : i \in DOMAIN accepted[s] /\ accepted[s][i] = e[i]
  BY <1>3, <1>5, <1>6, <1>7
<1> QED BY <1>1, <1>7, <1>8, <1>9, <1>10 DEF e

\* What a worker is done with is a prefix of what its shard accepted.
LEMMA EndedIsPrefix ==
  ASSUME IInv, NEW s \in Shards
  PROVE  \A i \in DOMAIN ended[s] : /\ i \in DOMAIN accepted[s]
                                    /\ accepted[s][i] = ended[s][i]
<1> DEFINE e == ended[s]
           h == InHand(s)
           q == queue[s]
<1>1. e \in Seq(Payloads) /\ h \in Seq(Payloads) /\ q \in Seq(Payloads)
  BY DEF InHand, Holding, IInv, TypeInv, TypeOK, HeldOK
<1>2. accepted[s] = e \o h \o q
  BY DEF IInv, Conserved
<1> HIDE DEF e, h, q
<1>3. e \o h \o q = e \o (h \o q)
  BY <1>1, ConcatAssoc, Zenon
<1> DEFINE r == h \o q
<1>4. r \in Seq(Payloads) /\ accepted[s] = e \o r
  BY <1>1, <1>2, <1>3, ConcatFacts
<1> HIDE DEF r
<1>5. /\ DOMAIN (e \o r) = 1 .. Len(e) + Len(r)
      /\ \A i \in 1 .. Len(e) + Len(r) :
            (e \o r)[i] = IF i <= Len(e) THEN e[i] ELSE r[i - Len(e)]
  BY <1>1, <1>4, ConcatFacts, Zenon
<1>6. Len(e) \in Nat /\ Len(r) \in Nat /\ DOMAIN e = 1 .. Len(e)
  BY <1>1, <1>4, LenProperties
<1>7. \A i \in DOMAIN e : i \in 1 .. Len(e) + Len(r) /\ i <= Len(e)
  BY <1>6
<1> QED BY <1>4, <1>5, <1>7, Zenon DEF e

\* CountedOnce, part by part.
AcceptedOnce ==
    \A s \in Shards : \A i, j \in DOMAIN accepted[s] :
        /\ call[accepted[s][i]] = "accepted"
        /\ Home(accepted[s][i]) = s
        /\ accepted[s][i] = accepted[s][j] => i = j

CountedAfterLeaving ==
    \A p \in Payloads : outcome[p] # "none" =>
        \/ call[p] = "discarded"
        \/ \E i \in DOMAIN ended[Home(p)] : ended[Home(p)][i] = p

LEMMA CallerCountedOnce ==
  ASSUME NEW p \in Payloads, TypeInv, CountedOnce, Arrive(p) \/ Enqueue(p)
  PROVE  CountedOnce'
<1>1. AcceptedOnce /\ CountedAfterLeaving
  BY DEF CountedOnce, AcceptedOnce, CountedAfterLeaving
<1>2. /\ call[p] \notin {"accepted", "discarded"}
      /\ \A q \in Payloads \ {p} : call'[q] = call[q]
      /\ UNCHANGED ended
  BY DEF TypeInv, TypeOK, workerVars,
     Arrive, MarshalFails, EnterEnqueue, RefuseClosed, Resend, Enqueue,
     Reserve, RefuseBytes, Send, SendFull, BackOut, Step
<1>3. CASE Send(p)
  <2>1. outcome' = outcome
    BY <1>3 DEF Send
  <2>2. CountedAfterLeaving'
    BY <1>1, <1>2, <2>1 DEF CountedAfterLeaving
  <2>3. AcceptedOnce'
    <3> SUFFICES ASSUME NEW s \in Shards,
                        NEW i \in DOMAIN accepted'[s], NEW j \in DOMAIN accepted'[s]
                 PROVE  /\ call'[accepted'[s][i]] = "accepted"
                        /\ Home(accepted'[s][i]) = s
                        /\ accepted'[s][i] = accepted'[s][j] => i = j
      BY DEF AcceptedOnce, Home, InstanceOf
    <3>1. call'[p] = "accepted"
      BY <1>3 DEF Send, TypeInv, TypeOK
    <3>2. accepted[s] \in Seq(Payloads)
      BY DEF TypeInv, TypeOK
    <3>3. CASE s # Home(p)
      <4>1. accepted'[s] = accepted[s]
        BY <1>3, <3>3 DEF Send, TypeInv, TypeOK
      <4>2. accepted[s][i] \in Payloads
        BY <3>2, <4>1, ElementOfSeq, LenProperties
      <4> QED BY <1>1, <1>2, <4>1, <4>2 DEF AcceptedOnce
    <3>4. CASE s = Home(p)
      <4> DEFINE a == accepted[s]
      <4>1. accepted'[s] = Append(a, p)
        BY <1>3, <3>4 DEF Send, TypeInv, TypeOK
      <4>2. a \in Seq(Payloads)
        BY <3>2
      <4>3. /\ Len(a) \in Nat /\ DOMAIN a = 1 .. Len(a)
            /\ DOMAIN Append(a, p) = 1 .. Len(a) + 1
            /\ \A k \in 1 .. Len(a) : Append(a, p)[k] = a[k] /\ a[k] \in Payloads
            /\ Append(a, p)[Len(a) + 1] = p
        BY <4>2, AppendProperties, LenProperties, ElementOfSeq
      <4>4. \A k \in 1 .. Len(a) : call[a[k]] = "accepted" /\ Home(a[k]) = s
        BY <1>1, <4>3 DEF AcceptedOnce
      <4>5. \A k \in 1 .. Len(a) : a[k] # p /\ call'[a[k]] = "accepted"
        BY <1>2, <4>3, <4>4
      <4>6. \A k, l \in 1 .. Len(a) : a[k] = a[l] => k = l
        BY <1>1, <4>3 DEF AcceptedOnce
      <4> HIDE DEF a
      <4>7. i \in 1 .. Len(a) + 1 /\ j \in 1 .. Len(a) + 1
        BY <4>1, <4>3
      <4>8. i \in 1 .. Len(a) \/ i = Len(a) + 1
        BY <4>3, <4>7
      <4>9. j \in 1 .. Len(a) \/ j = Len(a) + 1
        BY <4>3, <4>7
      <4> QED BY <3>1, <3>4, <4>1, <4>3, <4>4, <4>5, <4>6, <4>8, <4>9
    <3> QED BY <3>3, <3>4
  <2> QED BY <2>2, <2>3 DEF CountedOnce, AcceptedOnce, CountedAfterLeaving
<1>4. CASE ~ Send(p)
  <2>1. UNCHANGED accepted
    BY <1>4 DEF Arrive, MarshalFails, EnterEnqueue, RefuseClosed, Resend, Enqueue,
       Reserve, RefuseBytes, SendFull, BackOut, Step
  <2>2. AcceptedOnce'
    <3>1. \A s \in Shards : \A i \in DOMAIN accepted[s] : accepted[s][i] \in Payloads
      BY LenProperties, ElementOfSeq DEF TypeInv, TypeOK
    <3> QED BY <1>1, <1>2, <2>1, <3>1 DEF AcceptedOnce
  <2>3. CASE MarshalFails(p)
    <3>1. /\ call'[p] = "discarded"
          /\ \A q \in Payloads \ {p} : outcome'[q] = outcome[q]
      BY <2>3 DEF MarshalFails, TypeInv, TypeOK
    <3>2. CountedAfterLeaving'
      BY <1>1, <1>2, <3>1 DEF CountedAfterLeaving
    <3> QED BY <2>2, <3>2 DEF CountedOnce, AcceptedOnce, CountedAfterLeaving
  <2>4. CASE ~ MarshalFails(p)
    <3>1. UNCHANGED outcome
      BY <1>4, <2>4 DEF Arrive, EnterEnqueue, RefuseClosed, Resend, Enqueue,
         Reserve, RefuseBytes, SendFull, BackOut, Step
    <3>2. CountedAfterLeaving'
      BY <1>1, <1>2, <3>1 DEF CountedAfterLeaving
    <3> QED BY <2>2, <3>2 DEF CountedOnce, AcceptedOnce, CountedAfterLeaving
  <2> QED BY <2>3, <2>4
<1> QED BY <1>3, <1>4

\* A worker's step either counts the payload it holds or leaves the history
\* of outcomes alone.
LEMMA WorkerEnds ==
  ASSUME NEW s \in Shards, TypeInv, Worker(s) \/ BackendProcesses(s)
  PROVE  \/ UNCHANGED <<ended, outcome>>
         \/ \E o \in {"delivered", "permanent"} :
               wpc[s] \in Holding /\ Finish(s, wpc[s], o)
         \/ ~ Stopping /\ wpc[s] \in Holding /\ Finish(s, wpc[s], "retry_exhausted")
         \/ \E o \in {"shutdown_deadline", "shutdown_attempt_failed", "delivered"} :
               wpc[s] \in {"final", "finalinflight"} /\ Finish(s, wpc[s], o)
<1>1. CASE Top(s) \/ Receive(s) \/ ReceiveStopping(s) \/ Release(s) \/ DrainTake(s)
           \/ DrainDone(s) \/ BackendProcesses(s) \/ BeginAttempt(s)
           \/ AttemptRetryable(s) \/ FailedStopping(s) \/ RetryWait(s)
           \/ WaitTimer(s) \/ WaitStopping(s) \/ FinalAttempt(s)
  BY <1>1 DEF BackendProcesses, Top, Receive, ReceiveStopping, Take, Move,
     BeginAttempt, AttemptRetryable, FailedStopping, RetryWait, WaitTimer,
     WaitStopping, FinalAttempt, Release, DrainTake, DrainDone
<1>2. CASE AttemptDelivered(s) \/ AttemptPermanent(s)
  <2>1. wpc[s] = "inflight"
    BY <1>2 DEF AttemptDelivered, AttemptPermanent, Finish
  <2> QED BY <1>2, <2>1, Zenon DEF AttemptDelivered, AttemptPermanent, Holding
<1>3. CASE RetryExhausted(s)
  <2>1. wpc[s] = "failed"
    BY <1>3 DEF RetryExhausted, Finish
  <2> QED BY <1>3, <2>1, Zenon DEF RetryExhausted, Holding
<1>4. CASE FinalDeadline(s)
  <2>1. wpc[s] = "final"
    BY <1>4 DEF FinalDeadline, Finish
  <2> QED BY <1>4, <2>1, Zenon DEF FinalDeadline
<1>5. CASE FinalDelivered(s) \/ FinalFailed(s)
  <2>1. wpc[s] = "finalinflight"
    BY <1>5 DEF FinalDelivered, FinalFailed, Finish
  <2> QED BY <1>5, <2>1, Zenon DEF FinalDelivered, FinalFailed
<1> QED BY <1>1, <1>2, <1>3, <1>4, <1>5 DEF Worker, Deliver, FinalDeliveryAttempt

LEMMA WorkerCountedOnce ==
  ASSUME NEW s \in Shards, IInv, CountedOnce, Worker(s) \/ BackendProcesses(s)
  PROVE  CountedOnce'
<1>1. AcceptedOnce /\ CountedAfterLeaving
  BY DEF CountedOnce, AcceptedOnce, CountedAfterLeaving
<1>2. UNCHANGED <<call, accepted>> /\ TypeInv
  BY WorkerFrame DEF IInv
<1>3. AcceptedOnce'
  BY <1>1, <1>2 DEF AcceptedOnce
<1>4. CASE UNCHANGED <<ended, outcome>>
  BY <1>1, <1>2, <1>3, <1>4 DEF CountedOnce, AcceptedOnce, CountedAfterLeaving
<1>5. ASSUME NEW o, wpc[s] \in Holding, Finish(s, wpc[s], o) PROVE CountedAfterLeaving'
  <2> DEFINE h == held[s]
  <2>1. h \in Payloads /\ Home(h) = s
    BY <1>1, <1>5, HeldIsNext DEF AcceptedOnce
  <2>2. ended[s] \in Seq(Payloads) /\ ended'[s] = Append(ended[s], h)
    BY <1>2, <1>5 DEF Finish, TypeInv, TypeOK
  <2>3. \A q \in Payloads \ {h} : outcome'[q] = outcome[q]
    BY <1>2, <1>5 DEF Finish, TypeInv, TypeOK
  <2>4. \A t \in Shards \ {s} : ended'[t] = ended[t]
    BY <1>2, <1>5 DEF Finish, TypeInv, TypeOK
  <2>5. /\ Len(ended[s]) \in Nat
        /\ DOMAIN ended[s] = 1 .. Len(ended[s])
        /\ DOMAIN ended'[s] = 1 .. Len(ended[s]) + 1
        /\ ended'[s][Len(ended[s]) + 1] = h
        /\ \A i \in DOMAIN ended[s] : ended'[s][i] = ended[s][i]
    BY <2>1, <2>2, AppendProperties, LenProperties
  <2> HIDE DEF h
  <2> SUFFICES ASSUME NEW q \in Payloads, outcome'[q] # "none", call[q] # "discarded"
               PROVE  \E i \in DOMAIN ended'[Home(q)] : ended'[Home(q)][i] = q
    BY <1>2 DEF CountedAfterLeaving, Home, InstanceOf
  <2>6. CASE q = h
    BY <2>1, <2>5, <2>6
  <2>7. CASE q # h
    <3>1. PICK i \in DOMAIN ended[Home(q)] : ended[Home(q)][i] = q
      BY <1>1, <2>3, <2>7 DEF CountedAfterLeaving
    <3>2. CASE Home(q) = s
      <4>1. i \in DOMAIN ended'[s] /\ ended'[s][i] = q
        BY <2>5, <3>1, <3>2
      <4> QED BY <3>2, <4>1
    <3>3. CASE Home(q) # s
      BY <2>4, <3>1, <3>3, HomeType
    <3> QED BY <3>2, <3>3
  <2> QED BY <2>6, <2>7
<1>6. CASE ~ UNCHANGED <<ended, outcome>>
  BY <1>2, <1>3, <1>5, <1>6, WorkerEnds
     DEF CountedOnce, AcceptedOnce, CountedAfterLeaving, Holding
<1> QED BY <1>4, <1>6

\* Every step keeps each payload accepted and counted at most once.
LEMMA CountedOnceStep == IInv /\ CountedOnce /\ [Next]_vars => CountedOnce'
<1> SUFFICES ASSUME IInv, CountedOnce, [Next]_vars PROVE CountedOnce'
  OBVIOUS
<1>1. TypeInv
  BY DEF IInv
<1>2. CASE ShutdownCall \/ ShutdownDeadline \/ Shutdown \/ UNCHANGED vars
  <2>1. UNCHANGED <<call, accepted, ended, outcome>>
    BY <1>2 DEF ShutdownCall, ShutdownDeadline, Shutdown, ShutdownClose,
       ShutdownStop, ShutdownReturn, SetShutdown, callVars, workerVars, vars
  <2> QED BY <2>1 DEF CountedOnce
<1> QED BY <1>1, <1>2, CallerCountedOnce, WorkerCountedOnce DEF Next, Terminated

LEMMA CountedOnceInvariance == Spec => [](IInv /\ CountedOnce)
<1>1. Init => CountedOnce
  BY DEF Init, CountedOnce
<1> QED BY <1>1, CountedOnceStep, Invariance, PTL DEF Spec

\* No payload is accepted twice, or counted without having been accepted
\* (or found unencodable).
THEOREM CountedOnceAlways == Spec => []CountedOnce
  BY CountedOnceInvariance, PTL

-----------------------------------------------------------------------------
(* The histories record every call: the converse of CountedOnce.           *)

\* A payload whose call was told it was taken is in its shard's history or
\* was discarded with a count, and a payload a worker is done with has an
\* outcome.
Recorded ==
    /\ \A p \in Payloads :
        /\ call[p] = "accepted" =>
              \E i \in DOMAIN accepted[Home(p)] : accepted[Home(p)][i] = p
        /\ call[p] = "discarded" => outcome[p] # "none"
    /\ \A s \in Shards : \A i \in DOMAIN ended[s] : outcome[ended[s][i]] # "none"

\* A caller's step records the payload it accepts or discards.
LEMMA CallerRecords ==
  ASSUME NEW p \in Payloads, TypeInv, Recorded, Arrive(p) \/ Enqueue(p)
  PROVE  Recorded'
<1>1. UNCHANGED ended /\ \A q \in Payloads : Home(q) \in Shards
  BY HomeType DEF Arrive, MarshalFails, EnterEnqueue, RefuseClosed, Resend, Enqueue,
     Reserve, RefuseBytes, Send, SendFull, BackOut, Step, workerVars
<1>2. CASE Send(p)
  <2>1. accepted[Home(p)] \in Seq(Payloads)
    BY <1>1 DEF TypeInv, TypeOK
  <2>2. accepted'[Home(p)] = Append(accepted[Home(p)], p)
    BY <1>1, <1>2 DEF Send, TypeInv, TypeOK
  <2>3. /\ Len(accepted[Home(p)]) + 1 \in DOMAIN accepted'[Home(p)]
        /\ accepted'[Home(p)][Len(accepted[Home(p)]) + 1] = p
        /\ \A i \in DOMAIN accepted[Home(p)] :
              i \in DOMAIN accepted'[Home(p)]
              /\ accepted'[Home(p)][i] = accepted[Home(p)][i]
    BY <2>1, <2>2, AppendProperties, LenProperties
  <2>4. \A t \in Shards \ {Home(p)} : accepted'[t] = accepted[t]
    BY <1>2 DEF Send, TypeInv, TypeOK
  <2>5. /\ UNCHANGED outcome
        /\ \A q \in Payloads \ {p} : call'[q] = call[q]
        /\ call'[p] = "accepted"
    BY <1>2 DEF Send, TypeInv, TypeOK
  <2>6. ASSUME NEW q \in Payloads, call'[q] = "accepted"
        PROVE  \E i \in DOMAIN accepted'[Home(q)] : accepted'[Home(q)][i] = q
    <3>1. CASE q = p
      BY <2>3, <3>1
    <3>2. CASE q # p
      <4>1. PICK i \in DOMAIN accepted[Home(q)] : accepted[Home(q)][i] = q
        BY <2>5, <2>6, <3>2 DEF Recorded
      <4> QED BY <1>1, <2>3, <2>4, <4>1
    <3> QED BY <3>1, <3>2
  <2>7. \A q \in Payloads : call'[q] = "discarded" => outcome'[q] # "none"
    BY <2>5 DEF Recorded
  <2> QED BY <1>1, <2>5, <2>6, <2>7 DEF Recorded, Home, InstanceOf
<1>3. CASE MarshalFails(p)
  <2>1. /\ UNCHANGED accepted
        /\ call' = [call EXCEPT ![p] = "discarded"]
        /\ outcome' = [outcome EXCEPT ![p] = "marshal"]
    BY <1>3 DEF MarshalFails
  <2>2. \A q \in Payloads : outcome[q] # "none" => outcome'[q] # "none"
    BY <2>1 DEF TypeInv, TypeOK
  <2>3. \A s \in Shards : \A i \in DOMAIN ended[s] : ended[s][i] \in Payloads
    BY LenProperties, ElementOfSeq DEF TypeInv, TypeOK
  <2>4. /\ call'[p] = "discarded" /\ outcome'[p] # "none"
        /\ \A q \in Payloads \ {p} : call'[q] = call[q]
    BY <2>1 DEF TypeInv, TypeOK
  <2>5. \A q \in Payloads : call'[q] = "discarded" => outcome'[q] # "none"
    BY <2>2, <2>4 DEF Recorded
  <2>6. \A q \in Payloads : call'[q] = "accepted" => call[q] = "accepted"
    BY <2>4
  <2> QED BY <1>1, <2>1, <2>2, <2>3, <2>5, <2>6 DEF Recorded, Home, InstanceOf
<1>4. CASE ~ Send(p) /\ ~ MarshalFails(p)
  <2>1. UNCHANGED <<accepted, outcome>>
    BY <1>4 DEF Arrive, EnterEnqueue, RefuseClosed, Resend, Enqueue,
       Reserve, RefuseBytes, SendFull, BackOut, Step
  <2>2. \A q \in Payloads :
            call'[q] \in {"accepted", "discarded"} => call'[q] = call[q]
    BY <1>4 DEF Arrive, EnterEnqueue, RefuseClosed, Resend, Enqueue,
       Reserve, RefuseBytes, SendFull, BackOut, Step, TypeInv, TypeOK
  <2> QED BY <1>1, <2>1, <2>2 DEF Recorded, Home, InstanceOf
<1> QED BY <1>2, <1>3, <1>4

\* A worker's step gives the payload it is done with an outcome.
LEMMA WorkerRecords ==
  ASSUME NEW s \in Shards, TypeInv, Recorded, Worker(s) \/ BackendProcesses(s)
  PROVE  Recorded'
<1>1. UNCHANGED <<call, accepted>>
  BY WorkerFrame
<1>2. CASE UNCHANGED <<ended, outcome>>
  BY <1>1, <1>2 DEF Recorded, Home, InstanceOf
<1>3. CASE ~ UNCHANGED <<ended, outcome>>
  <2>1. PICK o \in Outcomes \ {"none"} :
            wpc[s] \in Holding /\ Finish(s, wpc[s], o)
    BY <1>3, WorkerEnds DEF Holding, Outcomes, Drops
  <2>2. held[s] \in Payloads
    BY <2>1 DEF TypeInv, TypeOK, HeldOK
  <2>3. /\ \A q \in Payloads : outcome[q] # "none" => outcome'[q] # "none"
        /\ outcome'[held[s]] # "none"
    BY <2>1, <2>2 DEF Finish, TypeInv, TypeOK
  <2>4. /\ \A t \in Shards \ {s} : ended'[t] = ended[t]
        /\ ended'[s] = Append(ended[s], held[s])
        /\ ended[s] \in Seq(Payloads)
    BY <2>1 DEF Finish, TypeInv, TypeOK
  <2>5. \A i \in DOMAIN ended'[s] :
            ended'[s][i] = held[s]
            \/ (i \in DOMAIN ended[s] /\ ended'[s][i] = ended[s][i])
    BY <2>2, <2>4, AppendProperties, LenProperties
  <2>6. \A t \in Shards : \A i \in DOMAIN ended[t] : ended[t][i] \in Payloads
    BY LenProperties, ElementOfSeq DEF TypeInv, TypeOK
  <2>7. \A t \in Shards : \A i \in DOMAIN ended'[t] : outcome'[ended'[t][i]] # "none"
    BY <2>3, <2>4, <2>5, <2>6 DEF Recorded
  <2> QED BY <1>1, <2>3, <2>7 DEF Recorded, Home, InstanceOf
<1> QED BY <1>2, <1>3

LEMMA RecordedStep == TypeInv /\ Recorded /\ [Next]_vars => Recorded'
<1> SUFFICES ASSUME TypeInv, Recorded, [Next]_vars PROVE Recorded'
  OBVIOUS
<1>1. CASE ShutdownCall \/ ShutdownDeadline \/ Shutdown \/ UNCHANGED vars
  <2>1. UNCHANGED <<call, accepted, ended, outcome>>
    BY <1>1 DEF ShutdownCall, ShutdownDeadline, Shutdown, ShutdownClose,
       ShutdownStop, ShutdownReturn, SetShutdown, callVars, workerVars, vars
  <2> QED BY <2>1 DEF Recorded, Home, InstanceOf
<1> QED BY <1>1, CallerRecords, WorkerRecords DEF Next, Terminated

LEMMA RecordedInit == Init => Recorded
  BY DEF Init, Recorded

\* After Shutdown has returned, every payload that a caller was told was
\* taken has been counted as delivered or dropped.
LEMMA TakenIsCounted ==
  ASSUME IInv, Recorded, sd = "returned",
         NEW p \in Payloads, call[p] \in {"accepted", "discarded"}
  PROVE  outcome[p] # "none"
<1>1. CASE call[p] = "discarded"
  BY <1>1 DEF Recorded
<1>2. CASE call[p] = "accepted"
  <2>1. Home(p) \in Shards
    BY HomeType
  <2>2. ended[Home(p)] = accepted[Home(p)]
    BY <2>1, IInvNothingLeft DEF NothingLeftBehind
  <2> QED BY <1>2, <2>1, <2>2 DEF Recorded
<1> QED BY <1>1, <1>2

-----------------------------------------------------------------------------
(* The bytes a shard is charged for.                                       *)

\* The payloads on a shard's queue.
Queued(s) == {queue[s][i] : i \in DOMAIN queue[s]}

\* What is queued on a shard or held by its worker was accepted there, and
\* nothing is there twice.
ShardOnce(s) ==
    /\ \A q \in Queued(s) : call[q] = "accepted" /\ Home(q) = s
    /\ \A i, j \in DOMAIN queue[s] : queue[s][i] = queue[s][j] => i = j
    /\ held[s] # NoItem =>
          call[held[s]] = "accepted" /\ Home(held[s]) = s /\ held[s] \notin Queued(s)

ShardAccounted(s) ==
    /\ IsFiniteSet(BytesOf(Charged(s)))
    /\ bytes[s] = Cardinality(BytesOf(Charged(s)))

ChargeInv == \A s \in Shards : ShardOnce(s) /\ ShardAccounted(s)

\* Charging one more payload adds its size.
LEMMA ChargeOneMore ==
  ASSUME NEW C, NEW p, p \notin C, Size[p] \in Nat, IsFiniteSet(BytesOf(C))
  PROVE  /\ IsFiniteSet(BytesOf(C \cup {p}))
         /\ Cardinality(BytesOf(C \cup {p})) = Cardinality(BytesOf(C)) + Size[p]
<1> DEFINE Own == {p} \X (1..Size[p])
<1>1. BytesOf(C \cup {p}) = BytesOf(C) \cup Own
  BY DEF BytesOf
<1>2. BytesOf(C) \cap Own = {}
  BY DEF BytesOf
<1>3. IsFiniteSet(Own) /\ Cardinality(Own) = Size[p]
  <2>1. IsFiniteSet(1..Size[p]) /\ Cardinality(1..Size[p]) = Size[p]
    BY FS_Interval
  <2>2. IsFiniteSet({p}) /\ Cardinality({p}) = 1
    BY FS_Singleton
  <2>3. /\ IsFiniteSet(Own)
        /\ Cardinality(Own) = Cardinality({p}) * Cardinality(1..Size[p])
    BY <2>1, <2>2, FS_Product, Zenon
  <2>4. Cardinality(Own) = 1 * Size[p]
    BY <2>1, <2>2, <2>3, Zenon
  <2> QED BY <2>3, <2>4
<1> HIDE DEF Own
<1>4. Cardinality(BytesOf(C) \cap Own) = 0
  BY <1>2, FS_EmptySet
<1>5. Cardinality(BytesOf(C)) \in Nat
  BY FS_CardinalityType
<1>6. /\ IsFiniteSet(BytesOf(C) \cup Own)
      /\ Cardinality(BytesOf(C) \cup Own) =
            Cardinality(BytesOf(C)) + Cardinality(Own) - Cardinality(BytesOf(C) \cap Own)
  BY <1>3, FS_Union, Zenon
<1>7. /\ IsFiniteSet(BytesOf(C \cup {p}))
      /\ Cardinality(BytesOf(C \cup {p})) = Cardinality(BytesOf(C)) + Size[p] - 0
  BY <1>1, <1>3, <1>4, <1>6, Zenon
<1> QED BY <1>5, <1>7

\* Releasing a payload takes its size off.
LEMMA ChargeOneLess ==
  ASSUME NEW C, NEW p \in C, Size[p] \in Nat, IsFiniteSet(BytesOf(C))
  PROVE  /\ IsFiniteSet(BytesOf(C \ {p}))
         /\ Cardinality(BytesOf(C \ {p})) = Cardinality(BytesOf(C)) - Size[p]
<1>1. BytesOf(C \ {p}) \subseteq BytesOf(C)
  BY DEF BytesOf
<1>2. IsFiniteSet(BytesOf(C \ {p})) /\ Cardinality(BytesOf(C \ {p})) \in Nat
  BY <1>1, FS_Subset, FS_CardinalityType
<1>3. (C \ {p}) \cup {p} = C /\ p \notin C \ {p}
  OBVIOUS
<1> QED BY <1>2, <1>3, ChargeOneMore

\* A shard whose calls, queue and worker's payload are left alone.
LEMMA ShardKept ==
  ASSUME NEW s \in Shards, ShardOnce(s), ShardAccounted(s),
         \A q \in Payloads : Home(q) = s => call'[q] = call[q],
         queue'[s] = queue[s], held'[s] = held[s], bytes'[s] = bytes[s], TypeInv
  PROVE  ShardOnce(s)' /\ ShardAccounted(s)'
<1>1. Charged(s)' = Charged(s)
  BY DEF Charged, Home, InstanceOf
<1>2. Queued(s)' = Queued(s) /\ Queued(s) \subseteq Payloads
  BY LenProperties, ElementOfSeq DEF Queued, TypeInv, TypeOK
<1>3. held[s] # NoItem => held[s] \in Payloads
  BY DEF TypeInv, TypeOK
<1> QED BY <1>1, <1>2, <1>3 DEF ShardOnce, ShardAccounted, Home, InstanceOf, BytesOf

\* A caller's step on its own shard.
LEMMA CallerCharges ==
  ASSUME NEW p \in Payloads, TypeInv, ChargeInv, Arrive(p) \/ Enqueue(p)
  PROVE  ChargeInv'
<1> DEFINE s == Home(p)
<1>1. s \in Shards /\ Size[p] \in Nat
  BY HomeType, ConstantsAssumption
<1>2. /\ call[p] # "accepted"
      /\ \A q \in Payloads \ {p} : call'[q] = call[q]
      /\ UNCHANGED held
      /\ \A t \in Shards \ {s} : queue'[t] = queue[t] /\ bytes'[t] = bytes[t]
  BY DEF TypeInv, TypeOK, workerVars,
     Arrive, MarshalFails, EnterEnqueue, RefuseClosed, Resend, Enqueue,
     Reserve, RefuseBytes, Send, SendFull, BackOut, Step
<1>3. ASSUME NEW t \in Shards, t # s PROVE ShardOnce(t)' /\ ShardAccounted(t)'
  BY <1>2, <1>3, ShardKept DEF ChargeInv
<1>4. ShardOnce(s) /\ ShardAccounted(s) /\ queue[s] \in Seq(Payloads) /\ bytes[s] \in Int
  BY <1>1 DEF ChargeInv, TypeInv, TypeOK
<1>5. p \notin Queued(s) /\ p # held[s] /\ Queued(s) \subseteq Payloads
  BY <1>2, <1>4, LenProperties, ElementOfSeq, ConstantsAssumption DEF ShardOnce, Queued
<1>6. ASSUME queue'[s] = queue[s] PROVE ShardOnce(s)'
  <2>1. Queued(s)' = Queued(s)
    BY <1>6 DEF Queued, Home, InstanceOf
  <2>2. held[s] # NoItem => held[s] \in Payloads \ {p}
    BY <1>1, <1>5 DEF TypeInv, TypeOK
  <2> HIDE DEF s
  <2> QED BY <1>2, <1>4, <1>5, <1>6, <2>1, <2>2 DEF ShardOnce, Home, InstanceOf
<1>7. \A q \in Payloads :
        q \in Charged(s) <=> Home(q) = s /\ (\/ call[q] \in {"reserved", "backout"}
                                             \/ q \in Queued(s) \/ held[s] = q)
  BY DEF Charged, Queued
<1>8. \A q \in Payloads :
        q \in Charged(s)' <=> Home(q) = s /\ (\/ call'[q] \in {"reserved", "backout"}
                                              \/ q \in Queued(s)' \/ held'[s] = q)
  BY DEF Charged, Queued, Home, InstanceOf
<1>9. Charged(s) \subseteq Payloads /\ Charged(s)' \subseteq Payloads
  BY DEF Charged
<1>10. CASE Reserve(p)
  <2>1. /\ call[p] = "admitted" /\ call'[p] = "reserved"
        /\ bytes'[s] = bytes[s] + Size[p] /\ queue'[s] = queue[s]
    BY <1>1, <1>10 DEF Reserve, TypeInv, TypeOK
  <2>2. Queued(s)' = Queued(s)
    BY <2>1 DEF Queued, Home, InstanceOf
  <2> HIDE DEF s
  <2>3. p \notin Charged(s) /\ Charged(s)' = Charged(s) \cup {p}
    BY <1>2, <1>5, <1>7, <1>8, <1>9, <2>1, <2>2 DEF s
  <2>4. ShardAccounted(s)'
    BY <1>1, <1>4, <2>1, <2>3, ChargeOneMore DEF ShardAccounted, BytesOf
  <2> QED BY <1>3, <1>6, <2>1, <2>4 DEF ChargeInv
<1>11. CASE BackOut(p)
  <2>1. /\ call[p] = "backout" /\ call'[p] = "refused"
        /\ bytes'[s] = bytes[s] - Size[p] /\ queue'[s] = queue[s]
    BY <1>1, <1>11 DEF BackOut, TypeInv, TypeOK
  <2>2. Queued(s)' = Queued(s)
    BY <2>1 DEF Queued, Home, InstanceOf
  <2> HIDE DEF s
  <2>3. p \in Charged(s) /\ Charged(s)' = Charged(s) \ {p}
    BY <1>2, <1>5, <1>7, <1>8, <1>9, <2>1, <2>2 DEF s
  <2>4. ShardAccounted(s)'
    BY <1>1, <1>4, <2>1, <2>3, ChargeOneLess DEF ShardAccounted, BytesOf
  <2> QED BY <1>3, <1>6, <2>1, <2>4 DEF ChargeInv
<1>12. CASE Send(p)
  <2>1. /\ call[p] = "reserved" /\ call'[p] = "accepted"
        /\ bytes'[s] = bytes[s] /\ queue'[s] = Append(queue[s], p)
    BY <1>1, <1>12 DEF Send, TypeInv, TypeOK
  <2>2. /\ Len(queue[s]) \in Nat
        /\ DOMAIN queue[s] = 1 .. Len(queue[s])
        /\ DOMAIN queue'[s] = 1 .. Len(queue[s]) + 1
        /\ queue'[s][Len(queue[s]) + 1] = p
        /\ \A i \in 1 .. Len(queue[s]) : queue'[s][i] = queue[s][i]
    BY <1>4, <2>1, AppendProperties, LenProperties
  <2>3. Queued(s)' = Queued(s) \cup {p}
    <3>1. Queued(s)' = {queue'[s][i] : i \in DOMAIN queue'[s]}
      BY DEF Queued, Home, InstanceOf
    <3> HIDE DEF s
    <3> QED BY <2>2, <3>1 DEF Queued
  <2> HIDE DEF s
  <2>4. Charged(s)' = Charged(s)
    BY <1>2, <1>5, <1>7, <1>8, <1>9, <2>1, <2>3 DEF s
  <2>5. ShardAccounted(s)'
    BY <1>4, <2>1, <2>4 DEF ShardAccounted, BytesOf
  <2>6. ASSUME NEW i \in DOMAIN queue'[s], NEW j \in DOMAIN queue'[s],
               queue'[s][i] = queue'[s][j]
        PROVE  i = j
    <3>1. \A k \in DOMAIN queue[s] : queue[s][k] # p
      BY <1>5 DEF Queued
    <3> QED BY <1>4, <2>2, <2>6, <3>1 DEF ShardOnce
  <2>7. held[s] # NoItem => held[s] \in Payloads \ {p}
    BY <1>1, <1>5 DEF TypeInv, TypeOK
  <2>8. Home(p) = s
    BY DEF s
  <2>9. ShardOnce(s)'
    BY <1>2, <1>4, <1>5, <2>1, <2>3, <2>6, <2>7, <2>8 DEF ShardOnce, Home, InstanceOf
  <2> QED BY <1>3, <2>5, <2>9 DEF ChargeInv
<1>13. CASE ~ (Reserve(p) \/ BackOut(p) \/ Send(p))
  <2>1. /\ queue' = queue /\ bytes' = bytes
        /\ call[p] \in {"reserved", "backout"} <=> call'[p] \in {"reserved", "backout"}
    BY <1>13 DEF Arrive, MarshalFails, EnterEnqueue, RefuseClosed, Resend, Enqueue,
       RefuseBytes, SendFull, Step, TypeInv, TypeOK
  <2>2. Queued(s)' = Queued(s)
    BY <2>1 DEF Queued, Home, InstanceOf
  <2> HIDE DEF s
  <2>3. Charged(s)' = Charged(s)
    BY <1>2, <1>7, <1>8, <1>9, <2>1, <2>2 DEF s
  <2>4. ShardAccounted(s)'
    BY <1>4, <2>1, <2>3 DEF ShardAccounted, BytesOf
  <2> QED BY <1>3, <1>6, <2>1, <2>4 DEF ChargeInv
<1> QED BY <1>10, <1>11, <1>12, <1>13

\* A worker's step charges nothing: what it takes moves from the queue to
\* its hand, and only the release takes something off.
LEMMA WorkerCharges ==
  ASSUME NEW s \in Shards, TypeInv, ChargeInv, Worker(s) \/ BackendProcesses(s)
  PROVE  ChargeInv'
<1>1. /\ UNCHANGED call
      /\ \A t \in Shards \ {s} :
            queue'[t] = queue[t] /\ held'[t] = held[t] /\ bytes'[t] = bytes[t]
  BY WorkerFrame
<1>2. ASSUME NEW t \in Shards, t # s PROVE ShardOnce(t)' /\ ShardAccounted(t)'
  BY <1>1, <1>2, ShardKept DEF ChargeInv
<1>3. ShardOnce(s) /\ ShardAccounted(s) /\ queue[s] \in Seq(Payloads)
      /\ Queued(s) \subseteq Payloads
  BY LenProperties, ElementOfSeq DEF ChargeInv, Queued, TypeInv, TypeOK
<1>4. \A q \in Payloads :
        q \in Charged(s) <=> Home(q) = s /\ (\/ call[q] \in {"reserved", "backout"}
                                             \/ q \in Queued(s) \/ held[s] = q)
  BY DEF Charged, Queued
<1>5. \A q \in Payloads :
        q \in Charged(s)' <=> Home(q) = s /\ (\/ call'[q] \in {"reserved", "backout"}
                                              \/ q \in Queued(s)' \/ held'[s] = q)
  BY DEF Charged, Queued, Home, InstanceOf
<1>6. Charged(s) \subseteq Payloads /\ Charged(s)' \subseteq Payloads
  BY DEF Charged
<1>7. ASSUME NEW from, NEW to, from \in {"recv", "drain"}, Take(s, from, to)
      PROVE  ChargeInv'
  <2> DEFINE h == Head(queue[s])
             rest == Tail(queue[s])
  <2>1. /\ queue[s] # <<>> /\ queue'[s] = rest /\ held'[s] = h /\ bytes' = bytes
        /\ held[s] = NoItem
    BY <1>7 DEF Take, TypeInv, TypeOK, HeldOK, Holding
  <2>2. /\ Len(queue[s]) \in Nat \ {0} /\ DOMAIN queue[s] = 1 .. Len(queue[s])
        /\ h = queue[s][1] /\ rest \in Seq(Payloads)
        /\ DOMAIN rest = 1 .. Len(queue[s]) - 1
        /\ \A i \in 1 .. Len(queue[s]) - 1 : rest[i] = queue[s][i + 1]
    BY <1>3, <2>1, HeadTailProperties, LenProperties, EmptySeq
  <2> HIDE DEF h, rest
  <2>3. Queued(s)' = {rest[i] : i \in DOMAIN rest}
    BY <2>1 DEF Queued
  <2>4. h \notin Queued(s)'
    <3> SUFFICES ASSUME NEW i \in DOMAIN rest, rest[i] = h PROVE FALSE
      BY <2>3
    <3>1. i + 1 \in DOMAIN queue[s] /\ 1 \in DOMAIN queue[s] /\ i + 1 # 1
      BY <2>2
    <3>2. queue[s][i + 1] = queue[s][1]
      BY <2>2
    <3> QED BY <1>3, <3>1, <3>2 DEF ShardOnce
  <2>5. Queued(s) = Queued(s)' \cup {h}
    <3>1. ASSUME NEW q \in Queued(s), q # h PROVE q \in Queued(s)'
      <4>1. PICK i \in 1 .. Len(queue[s]) : q = queue[s][i]
        BY <2>2 DEF Queued
      <4>2. i - 1 \in 1 .. Len(queue[s]) - 1 /\ rest[i - 1] = q
        BY <2>2, <3>1, <4>1
      <4> QED BY <2>2, <2>3, <4>2
    <3>2. Queued(s)' \subseteq Queued(s) /\ h \in Queued(s)
      <4>1. 1 \in DOMAIN queue[s]
        BY <2>2
      <4>2. \A i \in DOMAIN rest : i + 1 \in DOMAIN queue[s] /\ rest[i] = queue[s][i + 1]
        BY <2>2
      <4>3. \A i \in DOMAIN rest : rest[i] \in Queued(s)
        BY <4>2 DEF Queued
      <4> QED BY <2>2, <2>3, <4>1, <4>3 DEF Queued
    <3> QED BY <3>1, <3>2
  <2>6. h \in Payloads /\ call[h] = "accepted" /\ Home(h) = s
    BY <1>3, <2>5 DEF ShardOnce
  <2>7. Charged(s)' = Charged(s)
    <3>1. ASSUME NEW q \in Payloads
          PROVE  (q \in Queued(s)' \/ held'[s] = q) <=> (q \in Queued(s) \/ held[s] = q)
      BY <2>1, <2>5, ConstantsAssumption
    <3>2. \A q \in Payloads : q \in Charged(s)' <=> q \in Charged(s)
      BY <1>1, <1>4, <1>5, <3>1
    <3> QED BY <1>6, <3>2
  <2>8. ShardAccounted(s)'
    BY <1>3, <2>1, <2>7 DEF ShardAccounted, BytesOf
  <2>9. ASSUME NEW i \in DOMAIN rest, NEW j \in DOMAIN rest, rest[i] = rest[j]
        PROVE  i = j
    <3>1. i + 1 \in DOMAIN queue[s] /\ j + 1 \in DOMAIN queue[s]
      BY <2>2
    <3>2. queue[s][i + 1] = queue[s][j + 1]
      BY <2>2, <2>9
    <3>3. i + 1 = j + 1
      BY <1>3, <3>1, <3>2 DEF ShardOnce
    <3> QED BY <2>2, <3>3
  <2>10. ShardOnce(s)'
    BY <1>1, <1>3, <2>1, <2>4, <2>5, <2>6, <2>9 DEF ShardOnce, Home, InstanceOf
  <2> QED BY <1>2, <2>8, <2>10 DEF ChargeInv
<1>8. CASE Release(s)
  <2> DEFINE h == held[s]
  <2>1. h \in Payloads /\ call[h] = "accepted" /\ Home(h) = s /\ h \notin Queued(s)
    BY <1>3, <1>8 DEF Release, TypeInv, TypeOK, HeldOK, ShardOnce
  <2>2. Size[h] \in Nat
    BY <2>1, ConstantsAssumption
  <2>3. /\ queue' = queue /\ held'[s] = NoItem /\ bytes'[s] = bytes[s] - Size[h]
    BY <1>8 DEF Release, TypeInv, TypeOK
  <2>4. Queued(s)' = Queued(s)
    BY <2>3 DEF Queued
  <2>5. h \in Charged(s) /\ Charged(s)' = Charged(s) \ {h}
    BY <1>1, <1>3, <1>4, <1>5, <1>6, <2>1, <2>3, <2>4, ConstantsAssumption
  <2> HIDE DEF h
  <2>6. ShardAccounted(s)'
    BY <1>3, <2>2, <2>3, <2>5, ChargeOneLess DEF ShardAccounted, BytesOf
  <2>7. ShardOnce(s)'
    BY <1>1, <1>3, <2>3, <2>4 DEF ShardOnce, Home, InstanceOf
  <2> QED BY <1>2, <2>6, <2>7 DEF ChargeInv
<1>9. CASE Receive(s) \/ DrainTake(s)
  BY <1>7, <1>9 DEF Receive, DrainTake
<1>10. CASE ~ (Receive(s) \/ DrainTake(s) \/ Release(s))
  <2>1. UNCHANGED <<queue, held, bytes>>
    BY <1>10 DEF
       Worker, BackendProcesses, Top, ReceiveStopping, Move,
       Finish, Deliver, FinalDeliveryAttempt, BeginAttempt, AttemptDelivered,
       AttemptPermanent, AttemptRetryable, FailedStopping, RetryExhausted,
       RetryWait, WaitTimer, WaitStopping, FinalDeadline, FinalAttempt,
       FinalDelivered, FinalFailed, DrainDone
  <2>2. ShardOnce(s)' /\ ShardAccounted(s)'
    BY <1>1, <1>3, <2>1, ShardKept
  <2> QED BY <1>2, <2>2 DEF ChargeInv
<1> QED BY <1>8, <1>9, <1>10

LEMMA ChargeStep == TypeInv /\ ChargeInv /\ [Next]_vars => ChargeInv'
<1> SUFFICES ASSUME TypeInv, ChargeInv, [Next]_vars PROVE ChargeInv'
  OBVIOUS
<1>1. CASE ShutdownCall \/ ShutdownDeadline \/ Shutdown \/ UNCHANGED vars
  <2>1. UNCHANGED <<call, queue, held, bytes>>
    BY <1>1 DEF ShutdownCall, ShutdownDeadline, Shutdown, ShutdownClose,
       ShutdownStop, ShutdownReturn, SetShutdown, callVars, workerVars, vars
  <2>2. \A s \in Shards : ShardOnce(s)' /\ ShardAccounted(s)'
    BY <2>1, ShardKept DEF ChargeInv
  <2> QED BY <2>2 DEF ChargeInv
<1> QED BY <1>1, CallerCharges, WorkerCharges DEF Next, Terminated

LEMMA ChargeInvariance == Spec => [](IInv /\ ChargeInv)
<1>1. ASSUME Init PROVE ChargeInv
  <2> SUFFICES ASSUME NEW s \in Shards PROVE ShardOnce(s) /\ ShardAccounted(s)
    BY DEF ChargeInv
  <2>1. queue[s] = <<>> /\ held[s] = NoItem /\ bytes[s] = 0 /\ Queued(s) = {}
    BY <1>1 DEF Init, Queued
  <2>2. Charged(s) = {} /\ BytesOf({}) = {}
    BY <1>1, <2>1, ConstantsAssumption DEF Init, Charged, BytesOf
  <2>3. ShardAccounted(s)
    BY <2>1, <2>2, FS_EmptySet DEF ShardAccounted
  <2> QED BY <2>1, <2>3 DEF ShardOnce
<1>2. IInv => TypeInv
  BY DEF IInv
<1> QED BY <1>1, <1>2, ChargeStep, Invariance, PTL DEF Spec

\* However reserve, send, back-out and release interleave, on any number of
\* shards and with payloads of any size, shard.bytes is exactly what the
\* shard is charged for.
THEOREM BytesAccountedAlways == Spec => []BytesAccounted
<1>1. ChargeInv => BytesAccounted
  BY DEF ChargeInv, ShardAccounted, BytesAccounted
<1> QED BY <1>1, ChargeInvariance, PTL

\* Reserve refuses a payload, whatever its size, only when its shard is
\* charged for another.
THEOREM IdleShardAcceptsAlways == Spec => IdleShardAccepts
<1>1. ASSUME IInv, ChargeInv, [Next]_vars, NEW p \in Payloads,
             call[p] = "admitted", call'[p] = "refused"
      PROVE  Charged(Home(p)) # {}
  <2>1. TypeInv /\ Home(p) \in Shards
    BY <1>1, HomeType DEF IInv
  <2>2. ASSUME NEW q \in Payloads, Arrive(q) \/ Enqueue(q) PROVE RefuseBytes(p)
    BY <1>1, <2>1, <2>2 DEF Arrive, MarshalFails, EnterEnqueue, RefuseClosed, Resend,
       Enqueue, Reserve, RefuseBytes, Send, SendFull, BackOut, Step, TypeInv, TypeOK
  <2>3. ASSUME NEW s \in Shards, Worker(s) \/ BackendProcesses(s) PROVE FALSE
    BY <1>1, <2>1, <2>3, WorkerFrame
  <2>4. RefuseBytes(p)
    BY <1>1, <2>2, <2>3 DEF Next, Terminated, ShutdownCall, ShutdownDeadline, Shutdown,
       ShutdownClose, ShutdownStop, ShutdownReturn, SetShutdown, callVars, vars
  <2>5. bytes[Home(p)] # 0
    BY <2>1, <2>4 DEF RefuseBytes, Fits, TypeInv, TypeOK
  <2>6. BytesOf({}) = {}
    BY DEF BytesOf
  <2> QED BY <1>1, <2>1, <2>5, <2>6, FS_EmptySet DEF ChargeInv, ShardAccounted
<1>2. IInv /\ ChargeInv /\ [Next]_vars =>
        [\A p \in Payloads :
            call[p] = "admitted" /\ call'[p] = "refused" => Charged(Home(p)) # {}]_vars
  BY <1>1
<1> QED BY <1>2, ChargeInvariance, PTL DEF Spec, IdleShardAccepts

-----------------------------------------------------------------------------
(* Refinement: the sink implements Relay with a lane per shard.            *)

\* The abstract phase as Shutdown goes on.
LEMMA PhaseFacts ==
  /\ ~ Closed /\ sd \in ShutdownStates => RelayPhase = "open"
  /\ Closed /\ sd # "returned" => RelayPhase = "closed"
  /\ sd = "returned" => RelayPhase = "stopped"
<1>1. CASE sd \in {"running", "locking"}
  BY <1>1 DEF RelayPhase, Closed
<1>2. CASE sd \in {"closed", "draining", "cancelled"}
  BY <1>2 DEF RelayPhase, Closed
<1>3. CASE sd = "returned"
  BY <1>3 DEF RelayPhase, Closed
<1>4. CASE sd \notin ShutdownStates
  BY <1>4 DEF ShutdownStates, Closed
<1> QED BY <1>1, <1>2, <1>3, <1>4 DEF ShutdownStates

\* A payload that was neither accepted nor discarded is new to every lane.
LEMMA NotYetTaken ==
  ASSUME NEW p \in Payloads, IInv, CountedOnce, call[p] \notin {"accepted", "discarded"}
  PROVE  /\ outcome[p] = "none"
         /\ \A i \in DOMAIN accepted[Home(p)] : accepted[Home(p)][i] # p
<1>1. Home(p) \in Shards
  BY HomeType
<1>2. \A i \in DOMAIN accepted[Home(p)] : accepted[Home(p)][i] # p
  BY <1>1 DEF CountedOnce
<1>3. \A i \in DOMAIN ended[Home(p)] : ended[Home(p)][i] # p
  BY <1>1, <1>2, EndedIsPrefix
<1> QED BY <1>2, <1>3 DEF CountedOnce

\* A send happens while the relay is open.
LEMMA SendIsOpen ==
  ASSUME NEW p \in Payloads, IInv, Send(p)
  PROVE  RelayPhase = "open"
<1>1. ~ Closed
  BY DEF IInv, Coherent, Readers, Send
<1> QED BY <1>1, PhaseFacts DEF IInv, TypeInv, TypeOK

\* A callers' step is Take, Discard or a stutter of Relay.
LEMMA CallerRefines ==
  ASSUME NEW p \in Payloads, IInv, CountedOnce, Arrive(p) \/ Enqueue(p)
  PROVE  ShardRelay!Next \/ UNCHANGED ShardRelay!vars
<1>1. UNCHANGED <<ended, sd>>
  BY DEF Arrive, MarshalFails, EnterEnqueue, RefuseClosed, Resend, Enqueue,
     Reserve, RefuseBytes, Send, SendFull, BackOut, Step, workerVars
<1>2. UNCHANGED RelayPhase
  BY <1>1 DEF RelayPhase
<1>3. Home(p) \in Shards
  BY HomeType
<1>4. CASE Send(p)
  <2>1. ShardRelay!Take(p)
    BY <1>1, <1>2, <1>4, NotYetTaken, SendIsOpen DEF Send, ShardRelay!Take
  <2> QED BY <2>1 DEF ShardRelay!Next
<1>5. CASE MarshalFails(p)
  <2>1. ShardRelay!Discard(p)
    BY <1>1, <1>2, <1>5, NotYetTaken DEF MarshalFails, ShardRelay!Discard
  <2> QED BY <2>1 DEF ShardRelay!Next
<1>6. CASE ~ Send(p) /\ ~ MarshalFails(p)
  <2>1. UNCHANGED <<accepted, outcome>>
    BY <1>6 DEF Arrive, EnterEnqueue, RefuseClosed, Resend, Enqueue,
       Reserve, RefuseBytes, SendFull, BackOut, Step
  <2> QED BY <1>1, <1>2, <2>1 DEF ShardRelay!vars
<1> QED BY <1>4, <1>5, <1>6

\* The outcomes Relay allows in the phase Shutdown has reached.
OutcomesNow ==
    IF RelayPhase = "open" THEN ShardRelay!OpenOutcomes ELSE ShardRelay!ClosedOutcomes

\* The held payload has no outcome yet, and is on its own shard.
LEMMA HeldUncounted ==
  ASSUME NEW s \in Shards, IInv, CountedOnce, wpc[s] \in Holding
  PROVE  Home(held[s]) = s /\ outcome[held[s]] = "none"
<1>1. /\ Len(ended[s]) \in Nat
      /\ Len(ended[s]) + 1 \in DOMAIN accepted[s]
      /\ accepted[s][Len(ended[s]) + 1] = held[s]
      /\ held[s] \in Payloads
  BY HeldIsNext
<1>2. call[held[s]] = "accepted" /\ Home(held[s]) = s
  BY <1>1 DEF CountedOnce
<1>3. ASSUME NEW i \in DOMAIN ended[s], ended[s][i] = held[s] PROVE FALSE
  <2>1. i \in DOMAIN accepted[s] /\ accepted[s][i] = held[s]
    BY <1>3, HeldIsNext
  <2>2. i = Len(ended[s]) + 1
    BY <1>1, <2>1 DEF CountedOnce
  <2>3. i \in 1 .. Len(ended[s])
    BY LenProperties DEF IInv, TypeInv, TypeOK
  <2> QED BY <1>1, <2>2, <2>3
<1> QED BY <1>1, <1>2, <1>3 DEF CountedOnce

\* A step of a worker that ends something ends the payload it holds, with
\* an outcome Relay allows.
LEMMA WorkerLeaves ==
  ASSUME NEW s \in Shards, IInv, Worker(s) \/ BackendProcesses(s),
         ~ UNCHANGED <<ended, outcome>>
  PROVE  /\ wpc[s] \in Holding
         /\ RelayPhase # "stopped"
         /\ \E o \in OutcomesNow : Finish(s, wpc[s], o)
<1> USE DEF OutcomesNow, ShardRelay!OpenOutcomes, ShardRelay!ClosedOutcomes
<1>1. TypeInv
  BY DEF IInv
<1>2. PICK o : /\ wpc[s] \in Holding /\ Finish(s, wpc[s], o)
               /\ \/ o \in {"delivered", "permanent", "retry_exhausted"}
                  \/ /\ wpc[s] \in {"final", "finalinflight"}
                     /\ o \in {"shutdown_deadline", "shutdown_attempt_failed"}
  BY <1>1, WorkerEnds DEF Holding
<1>3. sd # "returned"
  BY <1>2 DEF IInv, Coherent, Holding
<1>4. RelayPhase = "open" \/ RelayPhase = "closed"
  BY <1>1, <1>3, PhaseFacts DEF TypeInv, TypeOK
<1>5. CASE o \in {"delivered", "permanent", "retry_exhausted"}
  BY <1>2, <1>4, <1>5
<1>6. CASE /\ wpc[s] \in {"final", "finalinflight"}
           /\ o \in {"shutdown_deadline", "shutdown_attempt_failed"}
  <2>1. Closed
    BY <1>6 DEF IInv, Coherent, Closed, Stopping
  <2>2. RelayPhase = "closed"
    BY <1>3, <2>1, PhaseFacts
  <2> QED BY <1>2, <1>6, <2>2
<1> QED BY <1>2, <1>5, <1>6

\* A worker's step is Leave or a stutter of Relay.
LEMMA WorkerRefines ==
  ASSUME NEW s \in Shards, IInv, CountedOnce, Worker(s) \/ BackendProcesses(s)
  PROVE  ShardRelay!Next \/ UNCHANGED ShardRelay!vars
<1>1. UNCHANGED <<accepted, sd>> /\ TypeInv
  BY WorkerFrame DEF IInv
<1>2. UNCHANGED RelayPhase
  BY <1>1 DEF RelayPhase
<1>3. CASE UNCHANGED <<ended, outcome>>
  BY <1>1, <1>2, <1>3 DEF ShardRelay!vars
<1>4. CASE ~ UNCHANGED <<ended, outcome>>
  <2>1. wpc[s] \in Holding /\ RelayPhase # "stopped"
    BY <1>4, WorkerLeaves
  <2>2. PICK o \in OutcomesNow : Finish(s, wpc[s], o)
    BY <1>4, WorkerLeaves
  <2>3. /\ Len(ended[s]) + 1 <= Len(accepted[s])
        /\ accepted[s][Len(ended[s]) + 1] = held[s]
    BY <2>1, HeldIsNext
  <2>4. outcome[held[s]] = "none"
    BY <2>1, HeldUncounted
  <2>5. /\ ended' = [ended EXCEPT ![s] = Append(@, held[s])]
        /\ outcome' = [outcome EXCEPT ![held[s]] = o]
    BY <2>2 DEF Finish
  <2>6. Len(ended[s]) < Len(accepted[s])
    BY <1>1, <2>3, LenProperties DEF TypeInv, TypeOK
  <2>7. ShardRelay!Leave(s)
    BY <1>1, <1>2, <2>1, <2>2, <2>3, <2>4, <2>5, <2>6 DEF ShardRelay!Leave, OutcomesNow
  <2> QED BY <2>7 DEF ShardRelay!Next
<1> QED BY <1>3, <1>4

\* When Shutdown returns, every shard's history is complete.
LEMMA AllEnded ==
  ASSUME IInv, ShutdownReturn
  PROVE  ended = accepted
<1>1. ASSUME NEW s \in Shards PROVE ended[s] = accepted[s]
  <2>1. InHand(s) = <<>> /\ queue[s] = <<>>
    BY DEF ShutdownReturn, IInv, Coherent, InHand, Holding
  <2>2. accepted[s] = ended[s] \o <<>> \o <<>>
    BY <2>1 DEF IInv, Conserved
  <2>3. ended[s] \in Seq(Payloads)
    BY DEF IInv, TypeInv, TypeOK
  <2> QED BY <2>2, <2>3, ConcatEmptySeq
<1> QED BY <1>1 DEF IInv, TypeInv, TypeOK

\* A step of Shutdown is Close, Stop or a stutter of Relay.
LEMMA ShutdownRefines ==
  ASSUME IInv, ShutdownCall \/ ShutdownDeadline \/ Shutdown
  PROVE  ShardRelay!Next \/ UNCHANGED ShardRelay!vars
<1>1. UNCHANGED <<accepted, ended, outcome>>
  BY DEF ShutdownCall, ShutdownDeadline, Shutdown, ShutdownClose,
     ShutdownStop, ShutdownReturn, SetShutdown, callVars, workerVars
<1>2. CASE ShutdownCall
  BY <1>1, <1>2 DEF ShutdownCall, SetShutdown, RelayPhase, ShardRelay!vars
<1>3. CASE ShutdownDeadline \/ ShutdownStop
  BY <1>1, <1>3 DEF ShutdownDeadline, ShutdownStop, SetShutdown, RelayPhase,
     ShardRelay!vars
<1>4. CASE ShutdownClose
  BY <1>1, <1>4 DEF ShutdownClose, SetShutdown, RelayPhase, ShardRelay!Close,
     ShardRelay!Next
<1>5. CASE ShutdownReturn
  <2>1. RelayPhase = "closed" /\ RelayPhase' = "stopped"
    BY <1>5 DEF ShutdownReturn, SetShutdown, RelayPhase
  <2>2. ShardRelay!Stop
    BY <1>1, <1>5, <2>1, AllEnded DEF ShardRelay!Stop
  <2> QED BY <2>2 DEF ShardRelay!Next
<1> QED BY <1>2, <1>3, <1>4, <1>5 DEF Shutdown

\* For any payloads, routing and limits, with callers, workers, retries,
\* lost replies and the shutdown deadline interleaved in any way, the sink
\* behaves as Relay with one lane per shard.
THEOREM ImplementsShardRelayAlways == Spec => ImplementsShardRelay
<1>1. Init => ShardRelay!Init
  BY DEF Init, ShardRelay!Init, RelayPhase
<1>2. IInv /\ CountedOnce /\ [Next]_vars => [ShardRelay!Next]_(ShardRelay!vars)
  <2> SUFFICES ASSUME IInv, CountedOnce, [Next]_vars
               PROVE  ShardRelay!Next \/ UNCHANGED ShardRelay!vars
    OBVIOUS
  <2>1. CASE UNCHANGED vars
    BY <2>1 DEF vars, ShardRelay!vars, RelayPhase
  <2> QED BY <2>1, CallerRefines, WorkerRefines, ShutdownRefines DEF Next, Terminated
<1> QED BY <1>1, <1>2, CountedOnceInvariance, PTL
        DEF Spec, ImplementsShardRelay, ShardRelay!Safety

-----------------------------------------------------------------------------
(* The selection of one instance's payloads.  The library's induction      *)
(* theorems take a predicate; the one below takes a set, which the provers *)
(* can be given.                                                           *)

LEMMA NatMinimum ==
  ASSUME NEW T \in SUBSET Nat, T # {}
  PROVE  \E x \in T : \A y \in T : x <= y
<1>1. PICK x \in T : \A y \in T : ~ (<<y, x>> \in OpToRel(<, Nat))
  BY NatLessThanWellFounded, WFMin
<1>2. ASSUME NEW y \in T, y < x PROVE FALSE
  <2>1. <<y, x>> \in Nat \X Nat /\ <<y, x>>[1] = y /\ <<y, x>>[2] = x
    OBVIOUS
  <2>2. <<y, x>>[1] < <<y, x>>[2]
    BY <1>2, <2>1, Zenon
  <2>3. <<y, x>> \in OpToRel(<, Nat)
    BY <2>1, <2>2, Zenon DEF OpToRel
  <2> QED BY <1>1, <2>3, Zenon
<1> QED BY <1>2

LEMMA SetInduction ==
  ASSUME NEW P \in SUBSET Nat, 0 \in P, \A n \in P : n + 1 \in P
  PROVE  P = Nat
<1> SUFFICES ASSUME Nat \ P # {} PROVE FALSE
  OBVIOUS
<1>1. PICK x \in Nat \ P : \A y \in Nat \ P : x <= y
  BY NatMinimum
<1>2. x # 0 /\ x - 1 \in Nat /\ x - 1 \in P
  BY <1>1
<1> QED BY <1>1, <1>2

\* One step of the selection of instance i's payloads.
With(chosen, p, i) == IF InstanceOf(p) = i THEN Append(chosen, p) ELSE chosen

\* g[k] is instance i's part of the first k payloads, for k up to n.
Selecting(g, payloads, i, n) ==
    /\ g \in [0..n -> Seq(Payloads)]
    /\ g[0] = <<>>
    /\ \A k \in 1..n : g[k] = With(g[k - 1], payloads[k], i)

LEMMA WithType ==
  ASSUME NEW c \in Seq(Payloads), NEW p \in Payloads, NEW i
  PROVE  With(c, p, i) \in Seq(Payloads)
  BY AppendProperties DEF With

LEMMA SelectingExists ==
  ASSUME NEW payloads \in Seq(Payloads), NEW i
  PROVE  \E g : Selecting(g, payloads, i, Len(payloads))
<1> DEFINE n == Len(payloads)
           P == {k \in Nat : k <= n => \E g : Selecting(g, payloads, i, k)}
<1>0. n \in Nat /\ \A k \in 1..n : payloads[k] \in Payloads
  BY LenProperties, ElementOfSeq
<1> HIDE DEF n
<1>1. 0 \in P
  <2> DEFINE g == [k \in 0..0 |-> <<>>]
  <2>1. Selecting(g, payloads, i, 0)
    BY DEF Selecting
  <2> HIDE DEF g
  <2> QED BY <2>1
<1>2. ASSUME NEW k \in P PROVE k + 1 \in P
  <2> SUFFICES ASSUME k + 1 <= n PROVE \E g : Selecting(g, payloads, i, k + 1)
    OBVIOUS
  <2>1. k \in Nat /\ k <= n /\ k + 1 \in 1..n
    BY <1>0
  <2>2. PICK g : Selecting(g, payloads, i, k)
    BY <2>1
  <2> DEFINE next == With(g[k], payloads[k + 1], i)
             h == [j \in 0..k + 1 |-> IF j = k + 1 THEN next ELSE g[j]]
  <2>3. g[k] \in Seq(Payloads) /\ payloads[k + 1] \in Payloads
    BY <1>0, <2>1, <2>2 DEF Selecting
  <2>4. next \in Seq(Payloads)
    BY <2>3, WithType
  <2> HIDE DEF next
  <2>5. h \in [0..k + 1 -> Seq(Payloads)] /\ h[0] = <<>>
    BY <2>1, <2>2, <2>4 DEF Selecting
  <2>6. ASSUME NEW j \in 1..k + 1 PROVE h[j] = With(h[j - 1], payloads[j], i)
    <3>1. CASE j = k + 1
      <4>1. h[j] = next /\ h[j - 1] = g[k]
        BY <2>1, <3>1
      <4> QED BY <3>1, <4>1 DEF next
    <3>2. CASE j # k + 1
      <4>1. j \in 1..k /\ h[j] = g[j] /\ h[j - 1] = g[j - 1]
        BY <2>1, <3>2
      <4> QED BY <2>2, <4>1 DEF Selecting
    <3> QED BY <3>1, <3>2
  <2>7. Selecting(h, payloads, i, k + 1)
    BY <2>5, <2>6 DEF Selecting
  <2> QED BY <2>7
<1> HIDE DEF P
<1>3. P = Nat
  BY <1>1, <1>2, SetInduction DEF P
<1> QED BY <1>0, <1>3 DEF P, n

\* The recursive function of Owned is any such g.
LEMMA OwnedSelected ==
  ASSUME NEW payloads \in Seq(Payloads), NEW i, NEW g,
         Selecting(g, payloads, i, Len(payloads))
  PROVE  Owned(payloads, i) = g[Len(payloads)]
<1> DEFINE n == Len(payloads)
           Steps(f) == [k \in 0..n |->
                          IF k = 0 THEN <<>>
                          ELSE IF InstanceOf(payloads[k]) = i THEN Append(f[k - 1], payloads[k])
                          ELSE f[k - 1]]
           own == CHOOSE f : f = Steps(f)
<1>1. n \in Nat
  BY LenProperties
<1>2. Owned(payloads, i) = own[n]
  BY DEF Owned
<1>4. g = Steps(g)
  <2>1. g = [k \in 0..n |-> g[k]]
    BY DEF Selecting
  <2>2. ASSUME NEW k \in 0..n PROVE g[k] = Steps(g)[k]
    <3>1. k = 0 \/ k \in 1..n
      BY <1>1
    <3> QED BY <3>1 DEF Selecting, With
  <2> QED BY <2>1, <2>2
<1>5. own = Steps(own)
  BY <1>4
<1> DEFINE P == {k \in Nat : k <= n => own[k] = g[k]}
<1> HIDE DEF own
<1>6. 0 \in P
  BY <1>1, <1>5 DEF Selecting
<1>7. ASSUME NEW k \in P PROVE k + 1 \in P
  <2> SUFFICES ASSUME k + 1 <= n PROVE own[k + 1] = g[k + 1]
    OBVIOUS
  <2>1. k \in Nat /\ own[k] = g[k] /\ k + 1 \in 0..n /\ k + 1 # 0 /\ k + 1 - 1 = k
    BY <1>1
  <2>2. own[k + 1] = Steps(own)[k + 1]
    BY <1>5
  <2>3. own[k + 1] = With(own[k], payloads[k + 1], i)
    BY <2>1, <2>2 DEF With
  <2>4. g[k + 1] = With(g[k], payloads[k + 1], i)
    <3>1. k + 1 \in 1..n
      BY <1>1, <2>1
    <3> QED BY <2>1, <3>1 DEF Selecting
  <2> QED BY <2>1, <2>3, <2>4
<1> HIDE DEF P
<1>8. P = Nat
  BY <1>6, <1>7, SetInduction DEF P
<1> QED BY <1>1, <1>2, <1>8 DEF P

LEMMA OwnedEmpty == \A i : Owned(<<>>, i) = <<>>
<1> TAKE i
<1>1. <<>> \in Seq(Payloads) /\ Len(<<>>) = 0
  BY EmptySeq
<1>2. PICK g : Selecting(g, <<>>, i, Len(<<>>))
  BY <1>1, SelectingExists
<1>3. Owned(<<>>, i) = g[0]
  BY <1>1, <1>2, OwnedSelected
<1> QED BY <1>2, <1>3 DEF Selecting

\* A sequence that another one begins with.
Begins(a, b) == Len(a) <= Len(b) /\ \A k \in 1..Len(a) : a[k] = b[k]

\* The same g tells what is selected from the sequence's beginnings.
LEMMA OwnedBeginning ==
  ASSUME NEW a \in Seq(Payloads), NEW b \in Seq(Payloads), Begins(a, b), NEW i, NEW g,
         Selecting(g, b, i, Len(b))
  PROVE  Owned(a, i) = g[Len(a)]
<1> DEFINE n == Len(a)
           h == [k \in 0..n |-> g[k]]
<1>1. n \in Nat /\ Len(b) \in Nat /\ n <= Len(b) /\ \A k \in 1..n : a[k] = b[k]
  BY LenProperties DEF Begins
<1>2. h \in [0..n -> Seq(Payloads)] /\ h[0] = <<>>
  BY <1>1 DEF Selecting
<1>3. ASSUME NEW k \in 1..n PROVE h[k] = With(h[k - 1], a[k], i)
  <2>1. k \in 1..Len(b) /\ h[k] = g[k] /\ h[k - 1] = g[k - 1]
    BY <1>1
  <2> QED BY <1>1, <2>1 DEF Selecting
<1>4. Selecting(h, a, i, n)
  BY <1>2, <1>3 DEF Selecting
<1>5. h[n] = g[n]
  BY <1>1
<1> HIDE DEF h
<1>6. Owned(a, i) = h[n]
  BY <1>4, OwnedSelected
<1> QED BY <1>5, <1>6

\* What a longer sequence adds: nothing, or the payload at its end.
LEMMA OwnedAppend ==
  ASSUME NEW payloads \in Seq(Payloads), NEW p \in Payloads, NEW i
  PROVE  Owned(Append(payloads, p), i) = With(Owned(payloads, i), p, i)
<1> DEFINE n == Len(payloads)
           more == Append(payloads, p)
<1>1. /\ n \in Nat /\ more \in Seq(Payloads) /\ Len(more) = n + 1
      /\ more[n + 1] = p /\ \A k \in 1..n : payloads[k] = more[k]
  BY LenProperties, AppendProperties
<1> HIDE DEF more
<1>2. PICK g : Selecting(g, more, i, n + 1)
  BY <1>1, SelectingExists
<1>3. Begins(payloads, more)
  BY <1>1 DEF Begins
<1>4. Owned(payloads, i) = g[n]
  BY <1>1, <1>2, <1>3, OwnedBeginning
<1>5. Owned(more, i) = g[n + 1]
  BY <1>1, <1>2, OwnedSelected
<1>6. g[n + 1] = With(g[n], p, i)
  BY <1>1, <1>2 DEF Selecting
<1> QED BY <1>4, <1>5, <1>6, Zenon DEF more

\* What is selected was there.
LEMMA OwnedType ==
  ASSUME NEW payloads \in Seq(Payloads), NEW i
  PROVE  /\ Owned(payloads, i) \in Seq(Payloads)
         /\ \A k \in DOMAIN Owned(payloads, i) :
               \E j \in DOMAIN payloads : payloads[j] = Owned(payloads, i)[k]
<1> DEFINE n == Len(payloads)
<1>1. n \in Nat /\ DOMAIN payloads = 1..n
  BY LenProperties
<1>2. PICK g : Selecting(g, payloads, i, n)
  BY SelectingExists
<1>3. Owned(payloads, i) = g[n] /\ g[n] \in Seq(Payloads)
  BY <1>1, <1>2, OwnedSelected DEF Selecting
<1> DEFINE There(k) == \A j \in DOMAIN g[k] : \E m \in 1..k : payloads[m] = g[k][j]
           P == {k \in Nat : k <= n => There(k)}
<1> HIDE DEF n
<1>4. 0 \in P
  BY <1>2 DEF Selecting
<1>5. ASSUME NEW k \in P PROVE k + 1 \in P
  <2> SUFFICES ASSUME k + 1 <= n, NEW j \in DOMAIN g[k + 1]
               PROVE  \E m \in 1..k + 1 : payloads[m] = g[k + 1][j]
    OBVIOUS
  <2>1. k \in Nat /\ k <= n /\ k + 1 \in 1..n /\ 1..k \subseteq 1..k + 1 /\ k + 1 \in 1..k + 1
    BY <1>1
  <2>2. There(k)
    BY <2>1
  <2>3. g[k] \in Seq(Payloads) /\ g[k + 1] = With(g[k], payloads[k + 1], i)
    BY <1>1, <1>2, <2>1 DEF Selecting
  <2>4. CASE InstanceOf(payloads[k + 1]) # i
    BY <2>1, <2>2, <2>3, <2>4 DEF With
  <2>5. CASE InstanceOf(payloads[k + 1]) = i
    <3>1. g[k + 1] = Append(g[k], payloads[k + 1]) /\ payloads[k + 1] \in Payloads
      BY <1>1, <2>1, <2>3, <2>5, ElementOfSeq DEF With, n
    <3>2. /\ Len(g[k]) \in Nat /\ DOMAIN g[k] = 1..Len(g[k])
          /\ DOMAIN g[k + 1] = 1..Len(g[k]) + 1
          /\ g[k + 1][Len(g[k]) + 1] = payloads[k + 1]
          /\ \A m \in 1..Len(g[k]) : g[k + 1][m] = g[k][m]
      BY <2>3, <3>1, AppendProperties, LenProperties
    <3>3. CASE j = Len(g[k]) + 1
      BY <2>1, <3>2, <3>3
    <3>4. CASE j # Len(g[k]) + 1
      <4>1. j \in DOMAIN g[k] /\ g[k + 1][j] = g[k][j]
        BY <3>2, <3>4
      <4> QED BY <2>1, <2>2, <4>1
    <3> QED BY <3>3, <3>4
  <2> QED BY <2>4, <2>5
<1> HIDE DEF P
<1>6. P = Nat
  BY <1>4, <1>5, SetInduction DEF P
<1>7. There(n)
  BY <1>1, <1>6 DEF P
<1> QED BY <1>1, <1>3, <1>7

LEMMA BeginsAppend ==
  ASSUME NEW a \in Seq(Payloads), NEW b \in Seq(Payloads), NEW p \in Payloads, NEW i,
         Begins(a, b)
  PROVE  Begins(a, With(b, p, i))
<1>1. /\ Len(a) \in Nat /\ Len(b) \in Nat /\ Len(Append(b, p)) = Len(b) + 1
      /\ \A k \in 1..Len(b) : Append(b, p)[k] = b[k]
  BY LenProperties, AppendProperties
<1>2. Begins(a, Append(b, p))
  BY <1>1 DEF Begins
<1> QED BY <1>2 DEF With

\* What is selected from a beginning begins what is selected from the whole.
LEMMA OwnedMonotone ==
  ASSUME NEW a \in Seq(Payloads), NEW b \in Seq(Payloads), Begins(a, b), NEW i
  PROVE  Begins(Owned(a, i), Owned(b, i))
<1> DEFINE m == Len(a)
           n == Len(b)
<1>1. m \in Nat /\ n \in Nat /\ m <= n /\ \A k \in 1..n : b[k] \in Payloads
  BY LenProperties, ElementOfSeq DEF Begins
<1>2. PICK g : Selecting(g, b, i, n)
  BY SelectingExists
<1>3. Owned(a, i) = g[m] /\ Owned(b, i) = g[n]
  BY <1>2, OwnedBeginning, OwnedSelected
<1> DEFINE P == {k \in Nat : m + k <= n => Begins(g[m], g[m + k])}
<1> HIDE DEF m, n
<1>4. 0 \in P
  <2>1. m + 0 = m /\ Len(g[m]) \in Nat
    BY <1>1, <1>2, LenProperties DEF Selecting
  <2> QED BY <2>1 DEF Begins
<1>5. ASSUME NEW k \in P PROVE k + 1 \in P
  <2> SUFFICES ASSUME m + (k + 1) <= n PROVE Begins(g[m], g[m + (k + 1)])
    OBVIOUS
  <2> DEFINE j == m + k
  <2>1. k \in Nat /\ j \in 0..n /\ j + 1 \in 1..n /\ m + (k + 1) = j + 1 /\ j <= n /\ m \in 0..n
    BY <1>1
  <2>2. Begins(g[m], g[j])
    BY <2>1
  <2> HIDE DEF j
  <2>3. /\ g[m] \in Seq(Payloads) /\ g[j] \in Seq(Payloads) /\ b[j + 1] \in Payloads
        /\ g[j + 1] = With(g[j], b[j + 1], i)
    <3>1. j + 1 - 1 = j
      BY <2>1
    <3> QED BY <1>1, <1>2, <2>1, <3>1 DEF Selecting
  <2>4. Begins(g[m], With(g[j], b[j + 1], i))
    BY <2>2, <2>3, BeginsAppend
  <2> QED BY <2>1, <2>3, <2>4
<1> HIDE DEF P
<1>6. P = Nat
  BY <1>4, <1>5, SetInduction DEF P
<1>7. n - m \in Nat /\ m + (n - m) = n
  BY <1>1
<1>8. Begins(g[m], g[n])
  BY <1>1, <1>6, <1>7 DEF P
<1> QED BY <1>3, <1>8

\* The payload that follows a beginning is the one that follows what is
\* selected from it, for its own instance.
LEMMA OwnedNext ==
  ASSUME NEW a \in Seq(Payloads), NEW b \in Seq(Payloads), Begins(a, b),
         Len(a) + 1 <= Len(b)
  PROVE  LET p == b[Len(a) + 1]
             c == Owned(a, InstanceOf(p))
             d == Owned(b, InstanceOf(p))
         IN  Len(c) < Len(d) /\ d[Len(c) + 1] = p
<1> DEFINE p == b[Len(a) + 1]
           i == InstanceOf(p)
           c == Owned(a, i)
           d == Owned(b, i)
           a2 == Append(a, p)
<1>1. p \in Payloads
  BY LenProperties, ElementOfSeq
<1> HIDE DEF p
<1>2. /\ a2 \in Seq(Payloads) /\ Len(a2) = Len(a) + 1 /\ a2[Len(a) + 1] = p
      /\ \A k \in 1..Len(a) : a2[k] = a[k]
      /\ Len(a) \in Nat
  BY <1>1, LenProperties, AppendProperties
<1> HIDE DEF a2
<1>3. Begins(a2, b)
  <2>1. Len(b) \in Nat /\ Len(a2) <= Len(b)
    BY <1>2, LenProperties
  <2>2. ASSUME NEW k \in 1..Len(a2) PROVE a2[k] = b[k]
    <3>1. k = Len(a) + 1 \/ k \in 1..Len(a)
      BY <1>2
    <3> QED BY <1>2, <3>1 DEF Begins, p
  <2> QED BY <2>1, <2>2 DEF Begins
<1>4. Owned(a2, i) = With(c, p, i)
  BY <1>1, OwnedAppend DEF a2
<1>5. c \in Seq(Payloads) /\ d \in Seq(Payloads)
  BY OwnedType
<1>6. Begins(Owned(a2, i), d)
  BY <1>2, <1>3, OwnedMonotone
<1> HIDE DEF c, d
<1>7. Owned(a2, i) = Append(c, p)
  BY <1>4 DEF With, i
<1>8. /\ Len(c) \in Nat /\ Len(d) \in Nat
      /\ Len(Append(c, p)) = Len(c) + 1 /\ Append(c, p)[Len(c) + 1] = p
  BY <1>1, <1>5, LenProperties, AppendProperties
<1>9. Begins(Append(c, p), d)
  BY <1>6, <1>7
<1>10. Len(c) < Len(d) /\ d[Len(c) + 1] = p
  BY <1>8, <1>9 DEF Begins
<1> QED BY <1>10 DEF c, d, i, p

-----------------------------------------------------------------------------
(* Refinement: the sink implements Relay with a lane per instance.         *)

\* A sequence that nothing was added to, as its lanes see it.
LEMMA SameLanes ==
  /\ UNCHANGED accepted =>
        UNCHANGED [i \in Instances |-> OfInstance(accepted, i)]
  /\ UNCHANGED ended => UNCHANGED [i \in Instances |-> OfInstance(ended, i)]
  BY DEF OfInstance

\* A history that gains payload p on p's shard gains it in its lane only.
LEMMA LaneAppend ==
  ASSUME NEW h \in [Shards -> Seq(Payloads)], NEW p \in Payloads
  PROVE  \A i \in Instances :
            OfInstance([h EXCEPT ![Home(p)] = Append(h[Home(p)], p)], i)
              = IF i = Owner[p] THEN Append(OfInstance(h, i), p) ELSE OfInstance(h, i)
<1> TAKE i \in Instances
<1> DEFINE s == Home(p)
           h2 == [h EXCEPT ![s] = Append(h[s], p)]
<1>1. s \in Shards /\ Owner[p] \in Instances /\ s = ShardIndex[Owner[p]]
  BY HomeType, ConstantsAssumption DEF Home, InstanceOf
<1>2. ShardIndex[i] \in Shards
  BY ConstantsAssumption
<1>3. CASE ShardIndex[i] # s
  <2>1. i # Owner[p] /\ h2[ShardIndex[i]] = h[ShardIndex[i]]
    BY <1>1, <1>2, <1>3
  <2> QED BY <2>1 DEF OfInstance
<1>4. CASE ShardIndex[i] = s
  <2>1. h2[s] = Append(h[s], p) /\ h[s] \in Seq(Payloads)
    BY <1>1
  <2>2. Owned(Append(h[s], p), i) = With(Owned(h[s], i), p, i)
    BY <2>1, OwnedAppend
  <2>3. OfInstance(h2, i) = With(OfInstance(h, i), p, i)
    BY <1>4, <2>1, <2>2 DEF OfInstance
  <2> QED BY <2>3 DEF With, InstanceOf
<1> QED BY <1>3, <1>4

\* A callers' step is Take, Discard or a stutter of Relay.
LEMMA CallerRefinesLanes ==
  ASSUME NEW p \in Payloads, IInv, CountedOnce, Arrive(p) \/ Enqueue(p)
  PROVE  InstanceRelay!Next \/ UNCHANGED InstanceRelay!vars
<1>1. UNCHANGED <<ended, sd>>
  BY DEF Arrive, MarshalFails, EnterEnqueue, RefuseClosed, Resend, Enqueue,
     Reserve, RefuseBytes, Send, SendFull, BackOut, Step, workerVars
<1>2. UNCHANGED RelayPhase
  BY <1>1 DEF RelayPhase
<1>3. UNCHANGED [i \in Instances |-> OfInstance(ended, i)]
  BY <1>1, SameLanes
<1>4. Owner[p] \in Instances /\ Home(p) \in Shards /\ Home(p) = ShardIndex[Owner[p]]
  BY HomeType, ConstantsAssumption DEF Home, InstanceOf
<1>5. accepted \in [Shards -> Seq(Payloads)]
  BY DEF IInv, TypeInv, TypeOK
<1> DEFINE lanes == [i \in Instances |-> OfInstance(accepted, i)]
<1>6. ASSUME call[p] \notin {"accepted", "discarded"}
      PROVE  outcome[p] = "none" /\ \A k \in DOMAIN lanes[Owner[p]] : lanes[Owner[p]][k] # p
  <2>1. lanes[Owner[p]] = Owned(accepted[Home(p)], Owner[p])
    BY <1>4 DEF OfInstance
  <2>2. accepted[Home(p)] \in Seq(Payloads)
    BY <1>4, <1>5
  <2>3. \A k \in DOMAIN Owned(accepted[Home(p)], Owner[p]) :
          \E j \in DOMAIN accepted[Home(p)] :
             accepted[Home(p)][j] = Owned(accepted[Home(p)], Owner[p])[k]
    BY <2>2, OwnedType
  <2>4. outcome[p] = "none" /\ \A j \in DOMAIN accepted[Home(p)] : accepted[Home(p)][j] # p
    BY <1>6, NotYetTaken
  <2> HIDE DEF lanes
  <2> QED BY <2>1, <2>3, <2>4
<1>7. CASE Send(p)
  <2>1. accepted' = [accepted EXCEPT ![Home(p)] = Append(accepted[Home(p)], p)]
    BY <1>7 DEF Send
  <2>2. lanes' = [lanes EXCEPT ![Owner[p]] = Append(lanes[Owner[p]], p)]
    <3>1. \A i \in Instances :
            OfInstance(accepted', i) = IF i = Owner[p] THEN Append(OfInstance(accepted, i), p)
                                       ELSE OfInstance(accepted, i)
      <4>1. \A i \in Instances :
              OfInstance([accepted EXCEPT ![Home(p)] = Append(accepted[Home(p)], p)], i)
                = IF i = Owner[p] THEN Append(OfInstance(accepted, i), p)
                  ELSE OfInstance(accepted, i)
        BY <1>5, LaneAppend
      <4> QED BY <2>1, <4>1
    <3> QED BY <1>4, <3>1
  <2>3. RelayPhase = "open" /\ outcome' = outcome /\ call[p] = "reserved"
    BY <1>7, SendIsOpen DEF Send
  <2>4. InstanceRelay!Take(p)
    BY <1>2, <1>3, <1>6, <2>2, <2>3 DEF InstanceRelay!Take
  <2> QED BY <2>4 DEF InstanceRelay!Next
<1>8. CASE MarshalFails(p)
  <2>1. call[p] = "idle" /\ accepted' = accepted /\ outcome' = [outcome EXCEPT ![p] = "marshal"]
    BY <1>8 DEF MarshalFails
  <2>2. lanes' = lanes
    BY <2>1, SameLanes
  <2>3. InstanceRelay!Discard(p)
    BY <1>2, <1>3, <1>6, <2>1, <2>2 DEF InstanceRelay!Discard
  <2> QED BY <2>3 DEF InstanceRelay!Next
<1>9. CASE ~ Send(p) /\ ~ MarshalFails(p)
  <2>1. UNCHANGED <<accepted, outcome>>
    BY <1>9 DEF Arrive, EnterEnqueue, RefuseClosed, Resend, Enqueue,
       Reserve, RefuseBytes, SendFull, BackOut, Step
  <2>2. lanes' = lanes
    BY <2>1, SameLanes
  <2> QED BY <1>2, <1>3, <2>1, <2>2 DEF InstanceRelay!vars
<1> QED BY <1>7, <1>8, <1>9

\* A worker's step is Leave, of the lane of the payload it ends, or a
\* stutter of Relay.
LEMMA WorkerRefinesLanes ==
  ASSUME NEW s \in Shards, IInv, CountedOnce, Worker(s) \/ BackendProcesses(s)
  PROVE  InstanceRelay!Next \/ UNCHANGED InstanceRelay!vars
<1>1. UNCHANGED <<accepted, sd>> /\ TypeInv
  BY WorkerFrame DEF IInv
<1>2. UNCHANGED RelayPhase
  BY <1>1 DEF RelayPhase
<1>3. UNCHANGED [i \in Instances |-> OfInstance(accepted, i)]
  BY <1>1, SameLanes
<1>4. CASE UNCHANGED <<ended, outcome>>
  <2>1. UNCHANGED [i \in Instances |-> OfInstance(ended, i)]
    BY <1>4, SameLanes
  <2> QED BY <1>2, <1>3, <1>4, <2>1 DEF InstanceRelay!vars
<1>5. CASE ~ UNCHANGED <<ended, outcome>>
  <2> DEFINE p == held[s]
             l == Owner[p]
             taken == [i \in Instances |-> OfInstance(accepted, i)]
             left == [i \in Instances |-> OfInstance(ended, i)]
  <2>1. wpc[s] \in Holding /\ RelayPhase # "stopped"
    BY <1>5, WorkerLeaves
  <2>2. PICK o \in OutcomesNow : Finish(s, wpc[s], o)
    BY <1>5, WorkerLeaves
  <2>3. /\ Len(ended[s]) + 1 <= Len(accepted[s])
        /\ accepted[s][Len(ended[s]) + 1] = p
        /\ p \in Payloads
        /\ Begins(ended[s], accepted[s])
    <3>1. /\ Len(ended[s]) + 1 <= Len(accepted[s])
          /\ accepted[s][Len(ended[s]) + 1] = p
          /\ p \in Payloads
      BY <2>1, HeldIsNext
    <3>2. \A i \in DOMAIN ended[s] : i \in DOMAIN accepted[s] /\ accepted[s][i] = ended[s][i]
      BY <2>1, HeldIsNext
    <3>3. /\ Len(ended[s]) \in Nat /\ Len(accepted[s]) \in Nat
          /\ DOMAIN ended[s] = 1 .. Len(ended[s])
      BY <1>1, LenProperties DEF TypeInv, TypeOK
    <3> QED BY <3>1, <3>2, <3>3 DEF Begins
  <2>4. outcome[p] = "none" /\ Home(p) = s
    BY <2>1, HeldUncounted
  <2>5. l \in Instances /\ ShardIndex[l] = s /\ l = InstanceOf(p)
    BY <2>3, <2>4, ConstantsAssumption DEF Home, InstanceOf
  <2>6. taken[l] = Owned(accepted[s], l) /\ left[l] = Owned(ended[s], l)
    BY <2>5 DEF OfInstance
  <2>7. accepted[s] \in Seq(Payloads) /\ ended[s] \in Seq(Payloads)
    BY <1>1 DEF TypeInv, TypeOK
  <2>8. /\ Len(Owned(ended[s], l)) < Len(Owned(accepted[s], l))
        /\ Owned(accepted[s], l)[Len(Owned(ended[s], l)) + 1] = p
    BY <2>3, <2>5, <2>7, OwnedNext
  <2>9. /\ ended' = [ended EXCEPT ![Home(p)] = Append(ended[Home(p)], p)]
        /\ outcome' = [outcome EXCEPT ![p] = o]
    BY <2>2, <2>4 DEF Finish
  <2>10. ended \in [Shards -> Seq(Payloads)]
    BY <1>1 DEF TypeInv, TypeOK
  <2>11. left' = [left EXCEPT ![l] = Append(left[l], p)]
    <3>1. \A i \in Instances :
            OfInstance(ended', i) = IF i = l THEN Append(OfInstance(ended, i), p)
                                    ELSE OfInstance(ended, i)
      <4>1. \A i \in Instances :
              OfInstance([ended EXCEPT ![Home(p)] = Append(ended[Home(p)], p)], i)
                = IF i = l THEN Append(OfInstance(ended, i), p) ELSE OfInstance(ended, i)
        BY <2>3, <2>10, LaneAppend
      <4> QED BY <2>9, <4>1
    <3> QED BY <2>5, <3>1
  <2>12. Len(left[l]) < Len(taken[l]) /\ taken[l][Len(left[l]) + 1] = p
    BY <2>6, <2>8
  <2>13. o \in IF RelayPhase = "open" THEN InstanceRelay!OpenOutcomes
               ELSE InstanceRelay!ClosedOutcomes
    BY <2>2 DEF OutcomesNow, ShardRelay!OpenOutcomes, ShardRelay!ClosedOutcomes,
                InstanceRelay!OpenOutcomes, InstanceRelay!ClosedOutcomes
  <2>14. InstanceRelay!Leave(l)
    BY <1>2, <1>3, <2>1, <2>4, <2>9, <2>11, <2>12, <2>13 DEF InstanceRelay!Leave
  <2> QED BY <2>5, <2>14 DEF InstanceRelay!Next
<1> QED BY <1>4, <1>5

\* A step of Shutdown is Close, Stop or a stutter of Relay.
LEMMA ShutdownRefinesLanes ==
  ASSUME IInv, ShutdownCall \/ ShutdownDeadline \/ Shutdown
  PROVE  InstanceRelay!Next \/ UNCHANGED InstanceRelay!vars
<1>1. UNCHANGED <<accepted, ended, outcome>>
  BY DEF ShutdownCall, ShutdownDeadline, Shutdown, ShutdownClose,
     ShutdownStop, ShutdownReturn, SetShutdown, callVars, workerVars
<1>2. /\ UNCHANGED [i \in Instances |-> OfInstance(accepted, i)]
      /\ UNCHANGED [i \in Instances |-> OfInstance(ended, i)]
  BY <1>1, SameLanes
<1>3. CASE ShutdownCall
  BY <1>1, <1>2, <1>3 DEF ShutdownCall, SetShutdown, RelayPhase, InstanceRelay!vars
<1>4. CASE ShutdownDeadline \/ ShutdownStop
  BY <1>1, <1>2, <1>4 DEF ShutdownDeadline, ShutdownStop, SetShutdown, RelayPhase,
     InstanceRelay!vars
<1>5. CASE ShutdownClose
  BY <1>1, <1>2, <1>5 DEF ShutdownClose, SetShutdown, RelayPhase, InstanceRelay!Close,
     InstanceRelay!Next
<1>6. CASE ShutdownReturn
  <2>1. RelayPhase = "closed" /\ RelayPhase' = "stopped"
    BY <1>6 DEF ShutdownReturn, SetShutdown, RelayPhase
  <2>2. ended = accepted
    BY <1>6, AllEnded
  <2>3. InstanceRelay!Stop
    BY <1>1, <1>2, <2>1, <2>2 DEF InstanceRelay!Stop
  <2> QED BY <2>3 DEF InstanceRelay!Next
<1> QED BY <1>3, <1>4, <1>5, <1>6 DEF Shutdown

\* For any payloads, routing and limits the sink behaves as Relay with one
\* lane per service instance: however instances share shards and shards
\* share the sink, one instance's payloads end in the order they were
\* accepted, each with one outcome the phase allows, nothing is taken after
\* the close and nothing is left at the stop.  This is the safety part of
\* ImplementsInstanceRelay.
THEOREM InstanceOrderAlways == Spec => InstanceRelay!Safety
<1>1. Init => InstanceRelay!Init
  <2> SUFFICES ASSUME Init PROVE InstanceRelay!Init
    OBVIOUS
  <2>1. \A i \in Instances : ShardIndex[i] \in Shards
    BY ConstantsAssumption
  <2>2. \A i \in Instances : OfInstance(accepted, i) = <<>> /\ OfInstance(ended, i) = <<>>
    BY <2>1, OwnedEmpty DEF Init, OfInstance
  <2> QED BY <2>2 DEF Init, InstanceRelay!Init, RelayPhase
<1>2. IInv /\ CountedOnce /\ [Next]_vars => [InstanceRelay!Next]_(InstanceRelay!vars)
  <2> SUFFICES ASSUME IInv, CountedOnce, [Next]_vars
               PROVE  InstanceRelay!Next \/ UNCHANGED InstanceRelay!vars
    OBVIOUS
  <2>1. CASE UNCHANGED vars
    <3>1. UNCHANGED <<accepted, ended, outcome, sd>>
      BY <2>1 DEF vars
    <3>2. /\ UNCHANGED [i \in Instances |-> OfInstance(accepted, i)]
          /\ UNCHANGED [i \in Instances |-> OfInstance(ended, i)]
      BY <3>1, SameLanes
    <3> QED BY <3>1, <3>2 DEF InstanceRelay!vars, RelayPhase
  <2> QED BY <2>1, CallerRefinesLanes, WorkerRefinesLanes, ShutdownRefinesLanes
          DEF Next, Terminated
<1> QED BY <1>1, <1>2, CountedOnceInvariance, PTL DEF Spec, InstanceRelay!Safety
=============================================================================
