---------------------------- MODULE IngestProofs ----------------------------
(***************************************************************************)
(* Proofs about Ingest for every finite set of requests, whatever is wrong *)
(* with each of them, and every cap on the decode slots.                   *)
(***************************************************************************)
EXTENDS Ingest, TLAPS, FiniteSetTheorems

Before == {"idle", "reading", "waiting", "decoding", "sink"}
After == {"leaving", "done"}

TypeInv ==
    /\ cap \in Nat
    /\ slots \in Nat
    /\ pc \in [Requests -> Before \cup After]
    /\ answer \in [Requests -> Nat]
    /\ counted \in [Requests -> SUBSET (DOMAIN StatusOf \cup {"canceled"})]

\* A request is counted by the step that ends it, and not before.
Uncounted(r) == counted[r] = {} /\ answer[r] = 0 /\ r \notin taken

\* What a request was counted under decides its answer.
CountedUnder(r, reason) ==
    /\ counted[r] = {reason}
    /\ r \in taken <=> reason = "accepted"
    /\ IF reason = "canceled" THEN answer[r] = 0 /\ r \in gone
       ELSE answer[r] = StatusOf[reason]

AnswerInv ==
    \A r \in Requests :
        /\ pc[r] \in Before => Uncounted(r)
        /\ pc[r] \in After =>
              \E reason \in DOMAIN StatusOf \cup {"canceled"} : CountedUnder(r, reason)

IInv == TypeInv /\ AnswerInv /\ SlotsAccounted

\* The statuses, spelled out: only one counter goes with a 202.
LEMMA StatusFacts ==
  /\ DOMAIN StatusOf = {"content_type", "too_large", "read", "busy", "malformed",
                        "invalid", "sink", "accepted"}
  /\ \A reason \in DOMAIN StatusOf :
        /\ StatusOf[reason] \in Nat \ {0}
        /\ StatusOf[reason] = 202 <=> reason = "accepted"
  BY DEF StatusOf

-----------------------------------------------------------------------------
(* The answers.                                                            *)

\* A step that moves one request on before its end.
LEMMA MovesOn ==
  ASSUME NEW r \in Requests, NEW to \in Before, TypeInv, AnswerInv,
         pc[r] \in Before, Goto(r, to), UNCHANGED <<gone, answer, counted, taken>>
  PROVE  AnswerInv'
  BY DEF TypeInv, AnswerInv, Goto, Uncounted, CountedUnder, Before, After

\* A step that counts a request under one reason ends it with that reason.
LEMMA EndsOnce ==
  ASSUME NEW r \in Requests, NEW to \in After,
         NEW reason \in DOMAIN StatusOf \cup {"canceled"}, TypeInv, AnswerInv,
         Goto(r, to), CountedUnder(r, reason)', UNCHANGED gone,
         \A q \in Requests \ {r} :
             /\ answer'[q] = answer[q] /\ counted'[q] = counted[q]
             /\ q \in taken' <=> q \in taken
  PROVE  AnswerInv'
<1>1. pc'[r] \in After /\ pc'[r] \notin Before
  BY DEF TypeInv, Goto, Before, After
<1>2. ASSUME NEW q \in Requests, q # r PROVE pc'[q] = pc[q]
  BY <1>2 DEF TypeInv, Goto
<1> QED BY <1>1, <1>2 DEF AnswerInv, Uncounted, CountedUnder

\* A step that counts a request and answers it.
LEMMA Answers ==
  ASSUME NEW r \in Requests, NEW to \in After, NEW reason \in DOMAIN StatusOf,
         TypeInv, AnswerInv, pc[r] \in Before, Goto(r, to), Answer(r, reason),
         UNCHANGED gone,
         taken' = IF reason = "accepted" THEN taken \cup {r} ELSE taken
  PROVE  /\ answer' \in [Requests -> Nat]
         /\ counted' \in [Requests -> SUBSET (DOMAIN StatusOf \cup {"canceled"})]
         /\ AnswerInv'
<1>1. StatusOf[reason] \in Nat /\ reason # "canceled"
  BY StatusFacts
<1>2. answer' \in [Requests -> Nat]
  BY <1>1 DEF TypeInv, Answer
<1>3. counted' \in [Requests -> SUBSET (DOMAIN StatusOf \cup {"canceled"})]
  BY DEF TypeInv, Answer
<1>4. CountedUnder(r, reason)'
  BY <1>1 DEF TypeInv, AnswerInv, Answer, Uncounted, CountedUnder
<1>5. \A q \in Requests \ {r} :
             /\ answer'[q] = answer[q] /\ counted'[q] = counted[q]
             /\ q \in taken' <=> q \in taken
  BY DEF TypeInv, Answer
<1> QED BY <1>2, <1>3, <1>4, <1>5, EndsOnce

-----------------------------------------------------------------------------
(* The slots.                                                              *)

LEMMA HoldersFinite == IsFiniteSet(Holders) /\ Cardinality(Holders) \in Nat
  BY IngestAssumption, FS_Subset, FS_CardinalityType DEF Holders

\* A step of one request that neither takes nor frees a slot.
LEMMA SlotsKept ==
  ASSUME NEW r \in Requests, NEW to, TypeInv, SlotsAccounted,
         Goto(r, to), UNCHANGED <<cap, slots>>,
         pc[r] \in {"decoding", "sink", "leaving"} <=> to \in {"decoding", "sink", "leaving"}
  PROVE  SlotsAccounted'
<1>1. Holders' = Holders
  BY DEF TypeInv, Holders, Goto
<1> QED BY <1>1 DEF SlotsAccounted

LEMMA SlotTaken ==
  ASSUME NEW r \in Requests, TypeInv, SlotsAccounted, AcquireSlot(r)
  PROVE  SlotsAccounted'
<1>1. r \notin Holders /\ Holders' = Holders \cup {r}
  BY DEF TypeInv, Holders, AcquireSlot, Goto
<1>2. Cardinality(Holders') = Cardinality(Holders) + 1
  BY <1>1, HoldersFinite, FS_AddElement
<1> QED BY <1>2 DEF TypeInv, SlotsAccounted, AcquireSlot, SlotFree

LEMMA SlotFreed ==
  ASSUME NEW r \in Requests, TypeInv, SlotsAccounted, Release(r)
  PROVE  SlotsAccounted' /\ slots' \in Nat
<1>1. r \in Holders /\ Holders' = Holders \ {r}
  BY DEF TypeInv, Holders, Release, Goto
<1>2. Cardinality(Holders') = Cardinality(Holders) - 1
  BY <1>1, HoldersFinite, FS_RemoveElement
<1> QED BY <1>2 DEF TypeInv, SlotsAccounted, Release

-----------------------------------------------------------------------------
(* The inductive invariant.                                                *)

\* Every step of a request keeps the account and the answers.
LEMMA RequestStep ==
  ASSUME NEW r \in Requests, IInv,
         Arrive(r) \/ ClientLeaves(r) \/ Handle(r) \/ Sink(r)
  PROVE  IInv'
<1> USE DEF IInv, Before, After
<1>1. Fault[r] \in {"none"} \cup ReadFaults \cup DecodeFaults
  BY IngestAssumption
<1>2. CASE Arrive(r)
  BY <1>2, MovesOn, SlotsKept DEF Arrive, TypeInv, Goto
<1>3. CASE ClientLeaves(r)
  BY <1>3 DEF ClientLeaves, TypeInv, AnswerInv, Uncounted, CountedUnder,
              SlotsAccounted, Holders
<1>4. CASE ReadFails(r)
  <2>1. PICK reason \in DOMAIN StatusOf \ {"accepted"} : Answer(r, reason)
    BY <1>4, StatusFacts DEF ReadFails, ReadFaults
  <2>2. AnswerInv' /\ TypeInv'
    BY <1>4, <2>1, Answers DEF ReadFails, TypeInv, Goto
  <2>3. SlotsAccounted'
    BY <1>4, SlotsKept DEF ReadFails
  <2> QED BY <2>2, <2>3
<1>5. CASE ReadDone(r)
  BY <1>5, MovesOn, SlotsKept DEF ReadDone, TypeInv, Goto
<1>6. CASE AcquireSlot(r)
  <2>1. TypeInv'
    BY <1>6 DEF AcquireSlot, TypeInv, Goto
  <2>2. AnswerInv'
    BY <1>6, MovesOn DEF AcquireSlot
  <2> QED BY <1>6, <2>1, <2>2, SlotTaken
<1>7. CASE AcquireCanceled(r)
  <2>1. TypeInv'
    BY <1>7 DEF AcquireCanceled, TypeInv, Goto
  <2>2. CountedUnder(r, "canceled")'
    BY <1>7 DEF AcquireCanceled, TypeInv, AnswerInv, Uncounted, CountedUnder
  <2>3. AnswerInv'
    BY <1>7, <2>2, EndsOnce DEF AcquireCanceled, TypeInv
  <2>4. SlotsAccounted'
    BY <1>7, SlotsKept DEF AcquireCanceled
  <2> QED BY <2>1, <2>3, <2>4
<1>8. CASE AcquireBusy(r)
  <2>1. "busy" \in DOMAIN StatusOf \ {"accepted"}
    BY StatusFacts
  <2>2. AnswerInv' /\ TypeInv'
    BY <1>8, <2>1, Answers DEF AcquireBusy, TypeInv, Goto
  <2>3. SlotsAccounted'
    BY <1>8, SlotsKept DEF AcquireBusy
  <2> QED BY <2>2, <2>3
<1>9. CASE DecodeFails(r)
  <2>1. Fault[r] \in DOMAIN StatusOf \ {"accepted"}
    BY <1>9, StatusFacts DEF DecodeFails, DecodeFaults
  <2>2. AnswerInv' /\ TypeInv'
    BY <1>9, <2>1, Answers DEF DecodeFails, TypeInv, Goto
  <2>3. SlotsAccounted'
    BY <1>9, SlotsKept DEF DecodeFails
  <2> QED BY <2>2, <2>3
<1>10. CASE Decode(r)
  BY <1>10, MovesOn, SlotsKept DEF Decode, TypeInv, Goto
<1>11. CASE Release(r)
  <2>1. TypeInv'
    BY <1>11, SlotFreed DEF Release, TypeInv, Goto
  <2>2. \A q \in Requests : pc[q] \in After <=> pc'[q] \in After
    BY <1>11 DEF Release, TypeInv, Goto
  <2>3. AnswerInv'
    BY <1>11, <2>1, <2>2 DEF Release, TypeInv, AnswerInv, Uncounted, CountedUnder
  <2> QED BY <1>11, <2>1, <2>3, SlotFreed
<1>12. CASE Sink(r)
  <2>1. AnswerInv' /\ TypeInv'
    BY <1>12, StatusFacts, Answers DEF Sink, SinkTakes, SinkRefuses, TypeInv, Goto
  <2>2. SlotsAccounted'
    BY <1>12, SlotsKept DEF Sink, SinkTakes, SinkRefuses
  <2> QED BY <2>1, <2>2
<1> QED BY <1>2, <1>3, <1>4, <1>5, <1>6, <1>7, <1>8, <1>9, <1>10, <1>11, <1>12
        DEF Handle

LEMMA IInvInit == Init => IInv
<1> SUFFICES ASSUME Init PROVE IInv
  OBVIOUS
<1>1. TypeInv /\ AnswerInv
  BY IngestAssumption
     DEF Init, TypeInv, AnswerInv, Uncounted, CountedUnder, Before, After
<1>2. Holders = {}
  BY DEF Init, Holders
<1>3. SlotsAccounted
  BY <1>1, <1>2, FS_EmptySet DEF Init, TypeInv, SlotsAccounted
<1> QED BY <1>1, <1>3 DEF IInv

LEMMA IInvStep == IInv /\ [Next]_vars => IInv'
<1>1. ASSUME IInv, UNCHANGED vars PROVE IInv'
  BY <1>1 DEF vars, IInv, TypeInv, AnswerInv, Uncounted, CountedUnder,
              SlotsAccounted, Holders
<1> QED BY <1>1, RequestStep DEF Next, Terminated

LEMMA IInvAlways == Spec => []IInv
  BY IInvInit, IInvStep, PTL DEF Spec

\* The semaphore of acquire and release counts exactly the requests between
\* the two, on every path out of handle, and never more than the cap, for
\* every number of requests and every cap.
THEOREM SlotsAccountedAlways == Spec => []SlotsAccounted
<1>1. IInv => SlotsAccounted
  BY DEF IInv
<1> QED BY <1>1, IInvAlways, PTL

\* A finished request was counted under exactly one counter, was answered
\* 202 exactly when the sink took its payload, and went without an answer
\* only after its client had left, for every number of requests.
THEOREM OneTrueAnswerAlways == Spec => []OneTrueAnswer
<1>1. IInv => OneTrueAnswer
  <2> SUFFICES ASSUME IInv, NEW r \in Requests, pc[r] = "done"
               PROVE  /\ Cardinality(counted[r]) = 1
                      /\ answer[r] = 202 <=> r \in taken
                      /\ answer[r] = 0 => r \in gone /\ counted[r] = {"canceled"}
    BY DEF OneTrueAnswer
  <2>1. PICK reason \in DOMAIN StatusOf \cup {"canceled"} : CountedUnder(r, reason)
    BY DEF IInv, AnswerInv, After
  <2>2. Cardinality(counted[r]) = 1
    BY <2>1, FS_Singleton DEF CountedUnder
  <2> QED BY <2>1, <2>2, StatusFacts DEF CountedUnder
<1> QED BY <1>1, IInvAlways, PTL
=============================================================================
