-------------------------- MODULE RetryAfterProofs --------------------------
(***************************************************************************)
(* The two sides of a Retry-After: the token bucket of one client, which   *)
(* hands it out, and the backoff of the sink, which obeys it.              *)
(*                                                                         *)
(* The bucket's promises are proved for any number of requests, any burst, *)
(* any rate and any length of time.  Neither is inductive.  RateHeld needs *)
(* the account of the tokens (what is in the bucket and what was drawn is  *)
(* never more than what was put in) and, to know that a cancellation gives *)
(* back no more than its reservation took, the order of the reservations   *)
(* that wait for their cancellation.  HintEnough needs what a request      *)
(* between its reservation and its cancellation owes the others.           *)
(***************************************************************************)
EXTENDS Bucket, Backoff, FiniteSetTheorems, TLAPS

Cap == Burst * PerToken

TypeInv ==
    /\ clock \in Nat
    /\ tokens \in Int /\ last \in Int /\ lastEvent \in Int
    /\ at \in [Requests -> {"idle", "draws", "cancels", "allowed", "limited"}]
    /\ now \in [Requests -> Int]
    /\ act \in [Requests -> Int]
    /\ told \in [Requests -> Int]
    /\ disorder \in BOOLEAN /\ overlap \in BOOLEAN
    /\ spoiled \subseteq Requests

\* Nobody has read a time that is yet to come.
TimeInv ==
    /\ last <= clock
    /\ \A r \in Requests : now[r] <= clock

\* The requests that wait to cancel their reservation, and those that have
\* a token which was not asked back.
Pending == {r \in Requests : at[r] = "cancels"}
Charged == {r \in Requests : at[r] \in {"allowed", "cancels"}}

\* The tokens there are and the tokens that were drawn.
Account == tokens + PerToken * Cardinality(Charged) <= Cap + last

\* A pending reservation is no later than the latest one, its token is
\* missing from the bucket, and it is a token apart from every other one.
PendingApart ==
    /\ \A p \in Pending : act[p] <= lastEvent /\ tokens <= last - act[p]
    /\ \A p, q \in Pending :
          p # q => act[p] + PerToken <= act[q] \/ act[q] + PerToken <= act[p]

OrderedInv == ~ disorder => Account /\ PendingApart

\* When requests come one after the other: at most one is in allow, its
\* time is not before the bucket's, and between its reservation and its
\* cancellation it owes exactly one token.
OneAtATime == \A r, q \in InAllow : r = q
Owes(r) ==
    /\ last = now[r] /\ tokens < 0 /\ lastEvent = last - tokens /\ act[r] = lastEvent

\* The tokens there are once the request in allow has cancelled.
Credit == IF Pending = {} THEN tokens ELSE tokens + PerToken

\* What a refused request was told is no less than the bucket's need.
HintKept(r) ==
    at[r] = "limited" /\ r \notin spoiled =>
        Credit >= PerToken \/ Credit + now[r] + told[r] * Second - last >= PerToken

SerialInv ==
    ~ overlap =>
        /\ OneAtATime
        /\ tokens <= Cap
        /\ \A r \in Requests : at[r] = "draws" => last <= now[r]
        /\ \A r \in Pending : Owes(r)
        /\ \A r \in Requests : HintKept(r)

IInv == /\ TypeInv /\ TimeInv /\ IsFiniteSet(Charged)
        /\ OrderedInv /\ RateHeld /\ SerialInv
-----------------------------------------------------------------------------
(* The arithmetic of a draw, a cancellation and a header.                  *)

LEMMA CapFacts ==
    /\ PerToken \in Nat \ {0} /\ Burst \in Nat \ {0} /\ Second \in Nat \ {0}
    /\ Cap \in Nat /\ Cap >= PerToken
  BY BucketAssumption DEF Cap

\* Advance adds the time that has passed, up to the cap.
LEMMA AdvanceFacts ==
  ASSUME TypeInv, NEW t \in Int
  PROVE  /\ Advance(t) \in Int
         /\ Advance(t) <= Cap
         /\ last <= t => /\ Advance(t) <= tokens + t - last
                         /\ Advance(t) = Cap \/ Advance(t) = tokens + t - last
  BY CapFacts DEF Advance, Lesser, Cap, TypeInv

LEMMA WaitFacts ==
  ASSUME TypeInv, NEW t \in Int
  PROVE  /\ Wait(t) \in Int /\ Wait(t) >= 0
         /\ Wait(t) = 0 => Advance(t) >= PerToken
         /\ Wait(t) > 0 => Wait(t) = PerToken - Advance(t)
<1>1. Advance(t) \in Int
  BY AdvanceFacts
<1> QED BY <1>1, CapFacts DEF Wait

\* The seconds of the header are no less than the delay.
LEMMA RoundedUp ==
  ASSUME NEW d \in Nat
  PROVE  RetryAfterSeconds(d) \in Int /\ RetryAfterSeconds(d) * Second >= d
<1> DEFINE n == d + Second - 1
           secs == n \div Second
<1>1. Second \in Nat \ {0} /\ n \in Nat
  BY CapFacts
<1> HIDE DEF n
<1>2. secs \in Int /\ n % Second \in 0 .. Second - 1 /\ n = Second * secs + (n % Second)
  BY <1>1
<1>3. secs * Second = Second * secs /\ Second * secs \in Int
  BY <1>1, <1>2
<1>4. secs * Second >= d
  BY <1>1, <1>2, <1>3 DEF n
<1>5. CASE secs < 1
  <2>1. RetryAfterSeconds(d) = 1
    BY <1>5 DEF RetryAfterSeconds, n
  <2>2. secs <= 0
    BY <1>2, <1>5
  <2>3. secs * Second <= 0
    BY <1>1, <1>2, <2>2
  <2> QED BY <1>1, <1>4, <2>1, <2>3, <1>2, <1>3
<1>6. CASE ~ (secs < 1)
  BY <1>2, <1>4, <1>6 DEF RetryAfterSeconds, n
<1> QED BY <1>5, <1>6

LEMMA TokenTimes ==
  ASSUME NEW m \in Nat, NEW n \in Nat
  PROVE  /\ PerToken * n \in Nat
         /\ PerToken * (n + 1) = PerToken * n + PerToken
         /\ m <= n => PerToken * m <= PerToken * n
  BY CapFacts

-----------------------------------------------------------------------------
(* What the steps of a request change.                                     *)

LEMMA TypeStep == TypeInv /\ [Next]_vars => TypeInv'
<1> SUFFICES ASSUME TypeInv, [Next]_vars PROVE TypeInv'
  OBVIOUS
<1>1. ASSUME NEW r \in Requests, Take(r) PROVE TypeInv'
  BY <1>1 DEF Take, TypeInv, bucketVars
<1>2. ASSUME NEW r \in Requests, Draw(r) PROVE TypeInv'
  <2>1. now[r] \in Int /\ Advance(now[r]) \in Int /\ Wait(now[r]) \in Int
    BY AdvanceFacts, WaitFacts DEF TypeInv
  <2>2. tokens' \in Int /\ last' \in Int /\ lastEvent' \in Int
    BY <1>2, <2>1, CapFacts DEF Draw, ReserveN
  <2>3. disorder' \in BOOLEAN
    BY <1>2 DEF Draw, ReserveN
  <2>4. at' \in [Requests -> {"idle", "draws", "cancels", "allowed", "limited"}]
    BY <1>2 DEF Draw, TypeInv
  <2>5. act' \in [Requests -> Int]
    BY <1>2, <2>1 DEF Draw, TypeInv
  <2>6. spoiled' \subseteq Requests
    BY <1>2 DEF Draw, TypeInv
  <2> QED BY <1>2, <2>2, <2>3, <2>4, <2>5, <2>6 DEF Draw, TypeInv
<1>3. ASSUME NEW r \in Requests, Refuse(r) PROVE TypeInv'
  <2>1. now[r] \in Int /\ act[r] \in Int /\ Advance(now[r]) \in Int
    BY AdvanceFacts DEF TypeInv
  <2>2. tokens' \in Int /\ last' \in Int /\ lastEvent' \in Int
    BY <1>3, <2>1, CapFacts DEF Refuse, CancelAt, TypeInv, Lesser, bucketVars, Cap
  <2>3. disorder' \in BOOLEAN
    BY <1>3 DEF Refuse, CancelAt, TypeInv
  <2>4. RetryAfterSeconds(act[r] - now[r]) \in Int
    BY <2>1, CapFacts DEF RetryAfterSeconds
  <2> QED BY <1>3, <2>2, <2>3, <2>4 DEF Refuse, TypeInv
<1>4. CASE TimePasses \/ Terminated \/ UNCHANGED vars
  BY <1>4 DEF TimePasses, Terminated, TypeInv, vars, bucketVars
<1> QED BY <1>1, <1>2, <1>3, <1>4 DEF Next

\* A reservation takes a token, or is left to be cancelled.
LEMMA DrawFacts ==
  ASSUME TypeInv, NEW r \in Requests, Draw(r)
  PROVE  /\ at[r] = "draws" /\ now[r] \in Int /\ Advance(now[r]) \in Int
         /\ tokens' = Advance(now[r]) - PerToken
         /\ last' = now[r]
         /\ \/ /\ at'[r] = "allowed" /\ tokens' >= 0 /\ lastEvent' = last'
               /\ spoiled' = spoiled \cup {q \in Requests : at[q] \in {"cancels", "limited"}}
            \/ /\ at'[r] = "cancels" /\ tokens' < 0 /\ lastEvent' = last' - tokens'
               /\ act'[r] = lastEvent' /\ spoiled' = spoiled
         /\ \A q \in Requests \ {r} : at'[q] = at[q] /\ act'[q] = act[q]
         /\ UNCHANGED <<clock, now, told, overlap>>
<1>1. now[r] \in Int /\ Advance(now[r]) \in Int /\ Wait(now[r]) \in Int
  BY AdvanceFacts, WaitFacts DEF TypeInv
<1>2. /\ tokens' = Advance(now[r]) - PerToken /\ last' = now[r]
      /\ lastEvent' = now[r] + Wait(now[r])
  BY DEF Draw, ReserveN
<1>3. /\ act'[r] = now[r] + Wait(now[r])
      /\ \A q \in Requests \ {r} : at'[q] = at[q] /\ act'[q] = act[q]
  BY DEF Draw, TypeInv
<1>4. CASE Wait(now[r]) > 0
  <2>1. at'[r] = "cancels" /\ spoiled' = spoiled
    BY <1>4 DEF Draw, TypeInv, Refused
  <2>2. Wait(now[r]) = PerToken - Advance(now[r])
    BY <1>1, <1>4, WaitFacts
  <2> QED BY <1>1, <1>2, <1>3, <1>4, <2>1, <2>2, CapFacts DEF Draw
<1>5. CASE ~ (Wait(now[r]) > 0)
  <2>1. /\ at'[r] = "allowed"
        /\ spoiled' = spoiled \cup {q \in Requests : at[q] \in {"cancels", "limited"}}
    BY <1>5 DEF Draw, TypeInv, Refused
  <2>2. Wait(now[r]) = 0 /\ Advance(now[r]) >= PerToken
    BY <1>1, <1>5, WaitFacts
  <2> QED BY <1>1, <1>2, <1>3, <2>1, <2>2, CapFacts DEF Draw
<1> QED BY <1>4, <1>5

\* A cancellation gives back at most what its reservation took, if the
\* reservation is no later than the latest one.
LEMMA RefuseFacts ==
  ASSUME TypeInv, NEW r \in Requests, Refuse(r)
  PROVE  /\ at[r] = "cancels" /\ at'[r] = "limited"
         /\ now[r] \in Int /\ act[r] \in Int /\ Advance(now[r]) \in Int
         /\ \/ /\ PerToken <= lastEvent - act[r]
               /\ UNCHANGED <<tokens, last, lastEvent, disorder>>
            \/ /\ PerToken > lastEvent - act[r]
               /\ tokens' = Lesser(Cap, Advance(now[r]) + (PerToken - (lastEvent - act[r])))
               /\ last' = now[r]
               /\ \/ lastEvent' = lastEvent
                  \/ act[r] = lastEvent /\ lastEvent' = act[r] - PerToken
         /\ told'[r] = RetryAfterSeconds(act[r] - now[r])
         /\ \A q \in Requests \ {r} : at'[q] = at[q] /\ told'[q] = told[q]
         /\ UNCHANGED <<clock, now, act, overlap, spoiled>>
<1>1. now[r] \in Int /\ act[r] \in Int /\ Advance(now[r]) \in Int
  BY AdvanceFacts DEF TypeInv
<1>2. /\ told'[r] = RetryAfterSeconds(act[r] - now[r])
      /\ at[r] = "cancels" /\ at'[r] = "limited"
      /\ \A q \in Requests \ {r} : at'[q] = at[q] /\ told'[q] = told[q]
      /\ UNCHANGED <<clock, now, act, overlap, spoiled>>
  BY DEF Refuse, TypeInv
<1>3. CASE PerToken - (lastEvent - act[r]) <= 0
  <2>1. UNCHANGED <<tokens, last, lastEvent, disorder>>
    BY <1>3 DEF Refuse, CancelAt, bucketVars
  <2>2. PerToken <= lastEvent - act[r]
    BY <1>1, <1>3, CapFacts DEF TypeInv
  <2> QED BY <1>1, <1>2, <2>1, <2>2
<1>4. CASE ~ (PerToken - (lastEvent - act[r]) <= 0)
  <2>1. /\ tokens' = Lesser(Cap, Advance(now[r]) + (PerToken - (lastEvent - act[r])))
        /\ last' = now[r]
        /\ \/ lastEvent' = lastEvent
           \/ act[r] = lastEvent /\ lastEvent' = act[r] - PerToken
    BY <1>4 DEF Refuse, CancelAt, Cap
  <2>2. PerToken > lastEvent - act[r]
    BY <1>1, <1>4, CapFacts DEF TypeInv
  <2> QED BY <1>1, <1>2, <2>1, <2>2
<1> QED BY <1>3, <1>4

\* A call that leaves disorder unset came with a time not before the
\* bucket's.
LEMMA InOrder ==
  ASSUME TypeInv, ~ disorder', NEW r \in Requests
  PROVE  /\ Draw(r) => ~ disorder /\ last <= now[r]
         /\ Refuse(r) => ~ disorder /\ (PerToken > lastEvent - act[r] => last <= now[r])
<1>1. now[r] \in Int /\ act[r] \in Int /\ last \in Int /\ lastEvent \in Int
  BY DEF TypeInv
<1>2. ASSUME Draw(r) PROVE ~ disorder /\ ~ (now[r] < last)
  BY <1>2 DEF Draw, ReserveN
<1>3. ASSUME Refuse(r)
      PROVE  ~ disorder /\ (PerToken - (lastEvent - act[r]) <= 0 \/ ~ (now[r] < last))
  BY <1>3 DEF Refuse, CancelAt
<1> QED BY <1>1, <1>2, <1>3, CapFacts

-----------------------------------------------------------------------------
(* The rate.                                                               *)

RateInv == TimeInv /\ IsFiniteSet(Charged) /\ OrderedInv /\ RateHeld

LEMMA TimeStep == TypeInv /\ TimeInv /\ [Next]_vars => TimeInv'
<1> SUFFICES ASSUME TypeInv, TimeInv, [Next]_vars PROVE TimeInv'
  OBVIOUS
<1>1. ASSUME NEW r \in Requests, Take(r) PROVE TimeInv'
  BY <1>1 DEF Take, TypeInv, TimeInv, bucketVars
<1>2. ASSUME NEW r \in Requests, Draw(r) PROVE TimeInv'
  BY <1>2, DrawFacts DEF TimeInv
<1>3. ASSUME NEW r \in Requests, Refuse(r) PROVE TimeInv'
  BY <1>3, RefuseFacts DEF TimeInv
<1>4. CASE TimePasses \/ Terminated \/ UNCHANGED vars
  BY <1>4 DEF TimePasses, Terminated, TypeInv, TimeInv, vars, bucketVars
<1> QED BY <1>1, <1>2, <1>3, <1>4 DEF Next

\* The reservations stay apart, each with its token missing.
LEMMA ApartStep ==
  ASSUME TypeInv, OrderedInv, ~ disorder', NEW r \in Requests, Draw(r) \/ Refuse(r)
  PROVE  PendingApart'
<1>1. /\ tokens \in Int /\ last \in Int /\ lastEvent \in Int
      /\ \A q \in Requests : now[q] \in Int /\ act[q] \in Int
  BY DEF TypeInv
<1>2. PendingApart
  BY InOrder DEF OrderedInv
<1>3. CASE Draw(r)
  <2>1. last <= now[r]
    BY <1>3, InOrder
  <2>2. Advance(now[r]) <= tokens + now[r] - last
    BY <1>3, <2>1, AdvanceFacts, DrawFacts
  <2>3. \A p \in Pending : p # r /\ act'[p] = act[p] /\ act[p] + PerToken <= last' - tokens'
    BY <1>1, <1>2, <1>3, <2>2, DrawFacts, CapFacts DEF Pending, PendingApart
  <2>4. \A p \in Pending' : p = r \/ p \in Pending
    BY <1>3, DrawFacts DEF Pending
  <2>5. CASE at'[r] = "allowed"
    <3>1. Pending' = Pending
      BY <1>3, <2>4, <2>5, DrawFacts DEF Pending
    <3>2. tokens' >= 0 /\ lastEvent' = last' /\ tokens' \in Int /\ last' \in Int
      BY <1>3, <2>5, DrawFacts, CapFacts
    <3>3. \A p \in Pending' : act'[p] <= lastEvent' /\ tokens' <= last' - act'[p]
      BY <1>1, <2>3, <3>1, <3>2, CapFacts DEF Pending
    <3>4. \A p, q \in Pending' :
            p # q => act'[p] + PerToken <= act'[q] \/ act'[q] + PerToken <= act'[p]
      BY <1>2, <2>3, <3>1 DEF PendingApart
    <3> QED BY <3>3, <3>4 DEF PendingApart
  <2>6. CASE at'[r] = "cancels"
    <3>1. /\ tokens' < 0 /\ lastEvent' = last' - tokens' /\ tokens' \in Int /\ last' \in Int
          /\ act'[r] = lastEvent'
      BY <1>3, <2>6, DrawFacts, CapFacts
    <3>2. \A p \in Pending' : p # r => act'[p] + PerToken <= act'[r] /\ act'[p] = act[p]
                                       /\ p \in Pending
      BY <2>3, <2>4, <3>1
    <3>3. \A p \in Pending' : act'[p] <= lastEvent' /\ tokens' <= last' - act'[p]
      <4> SUFFICES ASSUME NEW p \in Pending'
                   PROVE  act'[p] <= lastEvent' /\ tokens' <= last' - act'[p]
        OBVIOUS
      <4>1. CASE p = r
        BY <3>1, <4>1
      <4>2. CASE p # r
        BY <1>1, <3>1, <3>2, <4>2, CapFacts DEF Pending
      <4> QED BY <4>1, <4>2
    <3>4. \A p, q \in Pending' :
            p # q => act'[p] + PerToken <= act'[q] \/ act'[q] + PerToken <= act'[p]
      BY <1>2, <3>2 DEF PendingApart
    <3> QED BY <3>3, <3>4 DEF PendingApart
  <2> QED BY <1>3, <2>5, <2>6, DrawFacts
<1>4. CASE Refuse(r)
  <2>1. /\ r \in Pending /\ UNCHANGED act
        /\ \A p \in Pending' : p \in Pending /\ p # r
    BY <1>4, RefuseFacts DEF Pending
  <2>2. \A p, q \in Pending' :
          p # q => act'[p] + PerToken <= act'[q] \/ act'[q] + PerToken <= act'[p]
    BY <1>2, <2>1 DEF PendingApart
  <2>3. CASE UNCHANGED <<tokens, last, lastEvent, disorder>>
    BY <1>2, <2>1, <2>2, <2>3 DEF PendingApart
  <2>4. CASE /\ PerToken > lastEvent - act[r]
             /\ tokens' = Lesser(Cap, Advance(now[r]) + (PerToken - (lastEvent - act[r])))
             /\ last' = now[r]
             /\ \/ lastEvent' = lastEvent
                \/ act[r] = lastEvent /\ lastEvent' = act[r] - PerToken
    <3>1. last <= now[r] /\ Advance(now[r]) <= tokens + now[r] - last
      BY <1>1, <1>4, <2>4, InOrder, AdvanceFacts
    <3>2. tokens' <= tokens + now[r] - last + PerToken /\ tokens' \in Int
      BY <1>1, <1>2, <1>4, <2>1, <2>4, <3>1, CapFacts, RefuseFacts DEF Lesser, PendingApart
    <3>3. ASSUME NEW p \in Pending'
          PROVE  act'[p] <= lastEvent' /\ tokens' <= last' - act'[p]
      <4>1. /\ p \in Requests /\ p \in Pending /\ p # r /\ act'[p] = act[p]
            /\ act[p] <= lastEvent /\ tokens <= last - act[r]
        BY <1>2, <2>1, <3>3 DEF Pending, PendingApart
      <4>2. act[p] + PerToken <= act[r]
        <5>1. act[p] + PerToken <= act[r] \/ act[r] + PerToken <= act[p]
          BY <1>2, <2>1, <4>1 DEF PendingApart
        <5> QED BY <1>1, <2>4, <4>1, <5>1, CapFacts
      <4>3. act[r] <= lastEvent
        BY <1>2, <2>1 DEF PendingApart
      <4> QED BY <1>1, <2>4, <3>2, <4>1, <4>2, <4>3, CapFacts
    <3> QED BY <2>2, <3>3 DEF PendingApart
  <2> QED BY <1>4, <2>3, <2>4, RefuseFacts
<1> QED BY <1>3, <1>4

\* A draw adds one request to the charged ones, a cancellation takes one off.
LEMMA ChargedStep ==
  ASSUME TypeInv, IsFiniteSet(Charged), NEW r \in Requests
  PROVE  /\ Cardinality(Charged) \in Nat
         /\ Draw(r) => /\ IsFiniteSet(Charged')
                       /\ Cardinality(Charged') = Cardinality(Charged) + 1
         /\ Refuse(r) => /\ IsFiniteSet(Charged')
                         /\ Cardinality(Charged) = Cardinality(Charged') + 1
                         /\ Cardinality(Charged') \in Nat
<1>1. Cardinality(Charged) \in Nat
  BY FS_CardinalityType
<1>2. ASSUME Draw(r)
      PROVE  IsFiniteSet(Charged') /\ Cardinality(Charged') = Cardinality(Charged) + 1
  <2>1. r \notin Charged /\ Charged' = Charged \cup {r}
    BY <1>2, DrawFacts DEF Charged
  <2> QED BY <2>1, FS_AddElement
<1>3. ASSUME Refuse(r)
      PROVE  /\ IsFiniteSet(Charged') /\ Cardinality(Charged') \in Nat
             /\ Cardinality(Charged) = Cardinality(Charged') + 1
  <2>1. r \notin Charged' /\ Charged = Charged' \cup {r}
    BY <1>3, RefuseFacts DEF Charged
  <2>2. IsFiniteSet(Charged')
    BY <2>1, FS_Subset
  <2> QED BY <2>1, <2>2, FS_AddElement, FS_CardinalityType
<1> QED BY <1>1, <1>2, <1>3

LEMMA AccountStep ==
  ASSUME TypeInv, IsFiniteSet(Charged), OrderedInv, ~ disorder',
         NEW r \in Requests, Draw(r) \/ Refuse(r)
  PROVE  Account'
<1> DEFINE n == Cardinality(Charged)
           m == Cardinality(Charged')
<1>1. /\ tokens \in Int /\ last \in Int /\ lastEvent \in Int
      /\ n \in Nat
      /\ \A q \in Requests : now[q] \in Int /\ act[q] \in Int
  BY ChargedStep DEF TypeInv
<1>2. tokens + PerToken * n <= Cap + last
  BY InOrder DEF OrderedInv, Account
<1> SUFFICES tokens' + PerToken * m <= Cap + last'
  BY DEF Account, Cap
<1>3. CASE Draw(r)
  <2>1. m = n + 1
    BY <1>3, ChargedStep
  <2>2. PerToken * m = PerToken * n + PerToken /\ PerToken * n \in Nat
    BY <1>1, <2>1, TokenTimes
  <2>3. Advance(now[r]) <= tokens + now[r] - last
    BY <1>3, InOrder, AdvanceFacts, DrawFacts
  <2>4. tokens' = Advance(now[r]) - PerToken /\ last' = now[r] /\ Advance(now[r]) \in Int
    BY <1>3, DrawFacts
  <2> HIDE DEF m, n
  <2> QED BY <1>1, <1>2, <2>2, <2>3, <2>4, CapFacts
<1>4. CASE Refuse(r)
  <2>1. n = m + 1 /\ m \in Nat
    BY <1>4, ChargedStep
  <2>2. PerToken * n = PerToken * m + PerToken /\ PerToken * m \in Nat
    BY <2>1, TokenTimes
  <2>3. act[r] <= lastEvent
    <3>1. r \in Pending
      BY <1>4, RefuseFacts DEF Pending
    <3> QED BY <1>4, <3>1, InOrder DEF OrderedInv, PendingApart
  <2> HIDE DEF m, n
  <2>4. CASE UNCHANGED <<tokens, last, lastEvent, disorder>>
    BY <1>1, <1>2, <2>2, <2>4, CapFacts
  <2>5. CASE /\ PerToken > lastEvent - act[r]
             /\ tokens' = Lesser(Cap, Advance(now[r]) + (PerToken - (lastEvent - act[r])))
             /\ last' = now[r]
    <3>1. /\ last <= now[r] /\ Advance(now[r]) <= tokens + now[r] - last
          /\ Advance(now[r]) \in Int
      BY <1>1, <1>4, <2>5, InOrder, AdvanceFacts
    <3>2. tokens' <= tokens + now[r] - last + PerToken /\ tokens' \in Int
      BY <1>1, <2>3, <2>5, <3>1, CapFacts DEF Lesser
    <3> QED BY <1>1, <1>2, <2>2, <2>5, <3>2, CapFacts
  <2> QED BY <1>4, <2>4, <2>5, RefuseFacts
<1> QED BY <1>3, <1>4

LEMMA RateStep == TypeInv /\ RateInv /\ [Next]_vars => RateInv'
<1> SUFFICES ASSUME TypeInv, RateInv, [Next]_vars PROVE RateInv'
  OBVIOUS
<1>1. TimeInv /\ TimeInv' /\ TypeInv' /\ IsFiniteSet(Charged)
  BY TimeStep, TypeStep DEF RateInv
<1>2. clock \in Nat /\ clock' \in Nat /\ Cap \in Nat
  BY <1>1, CapFacts DEF TypeInv
<1>3. ASSUME NEW r \in Requests, Draw(r) PROVE RateInv'
  <2>1. IsFiniteSet(Charged') /\ Cardinality(Charged') \in Nat
    BY <1>1, <1>3, ChargedStep
  <2>2. ~ disorder' => Account' /\ PendingApart'
    BY <1>3, ApartStep, AccountStep DEF RateInv
  <2>3. ASSUME ~ disorder'
        PROVE  PerToken * Cardinality(Allowed') <= Cap + clock'
    <3>1. ~ disorder
      BY <1>3, <2>3, InOrder
    <3>2. CASE at'[r] = "allowed"
      <4>1. Allowed' \subseteq Charged'
        BY DEF Allowed, Charged
      <4>2. Cardinality(Allowed') <= Cardinality(Charged') /\ Cardinality(Allowed') \in Nat
        BY <2>1, <4>1, FS_Subset, FS_CardinalityType
      <4>3. PerToken * Cardinality(Allowed') <= PerToken * Cardinality(Charged')
        BY <2>1, <4>2, TokenTimes
      <4>4. tokens' + PerToken * Cardinality(Charged') <= Cap + last'
        BY <2>2, <2>3 DEF Account, Cap
      <4>5. tokens' >= 0 /\ tokens' \in Int /\ last' \in Int /\ last' <= clock'
        BY <1>1, <1>3, <3>2, DrawFacts DEF TypeInv, TimeInv
      <4>6. PerToken * Cardinality(Charged') \in Nat /\ PerToken * Cardinality(Allowed') \in Nat
        BY <2>1, <4>2, TokenTimes
      <4> HIDE DEF Allowed, Charged
      <4> QED BY <1>2, <4>3, <4>4, <4>5, <4>6
    <3>3. CASE at'[r] = "cancels"
      <4>1. Allowed' = Allowed /\ clock' = clock
        BY <1>3, <3>3, DrawFacts DEF Allowed
      <4> QED BY <3>1, <4>1 DEF RateInv, RateHeld, Cap
    <3> QED BY <1>3, <3>2, <3>3, DrawFacts
  <2> QED BY <1>1, <2>1, <2>2, <2>3 DEF RateInv, OrderedInv, RateHeld, Cap
<1>4. ASSUME NEW r \in Requests, Refuse(r) PROVE RateInv'
  <2>1. IsFiniteSet(Charged')
    BY <1>1, <1>4, ChargedStep
  <2>2. ~ disorder' => Account' /\ PendingApart'
    BY <1>4, ApartStep, AccountStep DEF RateInv
  <2>3. Allowed' = Allowed /\ clock' = clock
    BY <1>4, RefuseFacts DEF Allowed
  <2>4. ~ disorder' => ~ disorder
    BY <1>4, InOrder
  <2> QED BY <1>1, <2>1, <2>2, <2>3, <2>4 DEF RateInv, OrderedInv, RateHeld
<1>5. CASE \/ \E r \in Requests : Take(r)
           \/ TimePasses \/ Terminated \/ UNCHANGED vars
  <2>1. /\ UNCHANGED <<tokens, last, lastEvent, act, disorder>>
        /\ clock <= clock'
        /\ Allowed' = Allowed /\ Charged' = Charged /\ Pending' = Pending
    BY <1>2, <1>5 DEF Take, TimePasses, Terminated, TypeInv, vars, bucketVars,
       Allowed, Charged, Pending
  <2>2. Account => Account'
    BY <2>1 DEF Account, Cap
  <2>3. PendingApart => PendingApart'
    BY <2>1 DEF PendingApart
  <2>4. RateHeld => RateHeld'
    <3>1. IsFiniteSet(Allowed)
      <4>1. Allowed \subseteq Charged
        BY DEF Allowed, Charged
      <4> QED BY <1>1, <4>1, FS_Subset
    <3>2. PerToken * Cardinality(Allowed) \in Nat
      BY <3>1, FS_CardinalityType, TokenTimes
    <3>3. PerToken * Cardinality(Allowed) <= Burst * PerToken + clock
             => PerToken * Cardinality(Allowed') <= Burst * PerToken + clock'
      BY <1>2, <2>1, <3>2 DEF Cap
    <3> QED BY <2>1, <3>3 DEF RateHeld
  <2> QED BY <1>1, <2>1, <2>2, <2>3, <2>4 DEF RateInv, OrderedInv
<1> QED BY <1>3, <1>4, <1>5 DEF Next

-----------------------------------------------------------------------------
(* The header.                                                             *)

\* A request is alone in allow when requests do not overlap.
LEMMA Alone ==
  ASSUME SerialInv, ~ overlap, NEW r \in Requests, at[r] \in {"draws", "cancels"}
  PROVE  \A q \in Requests \ {r} : at[q] \notin {"draws", "cancels"}
  BY DEF SerialInv, OneAtATime, InAllow

LEMMA SerialTake ==
  ASSUME TypeInv, TimeInv, SerialInv, NEW r \in Requests, Take(r)
  PROVE  SerialInv'
<1> SUFFICES ASSUME ~ overlap' PROVE SerialInv'
  BY DEF SerialInv
<1>1. ~ overlap /\ InAllow = {}
  BY DEF Take
<1>2. /\ at'[r] = "draws" /\ now'[r] = clock
      /\ \A q \in Requests \ {r} : at'[q] = at[q] /\ now'[q] = now[q]
      /\ \A q \in Requests : at[q] \notin {"draws", "cancels"}
      /\ UNCHANGED <<tokens, last, lastEvent, act, told, spoiled>>
  BY <1>1 DEF Take, TypeInv, InAllow, bucketVars
<1>3. Pending = {} /\ Pending' = {} /\ OneAtATime'
  BY <1>2 DEF Pending, OneAtATime, InAllow
<1>4. tokens' <= Cap
  BY <1>1, <1>2 DEF SerialInv
<1>5. \A q \in Requests : at'[q] = "draws" => last' <= now'[q]
  BY <1>2 DEF TimeInv
<1>6. \A q \in Requests : HintKept(q)'
  <2> SUFFICES ASSUME NEW q \in Requests, at'[q] = "limited" PROVE HintKept(q)'
    BY DEF HintKept
  <2>1. at[q] = "limited" /\ now'[q] = now[q] /\ HintKept(q)
    BY <1>1, <1>2 DEF SerialInv
  <2> QED BY <1>2, <1>3, <2>1 DEF HintKept, Credit
<1> QED BY <1>3, <1>4, <1>5, <1>6 DEF SerialInv, Cap

LEMMA SerialDraw ==
  ASSUME TypeInv, SerialInv, NEW r \in Requests, Draw(r)
  PROVE  SerialInv'
<1> SUFFICES ASSUME ~ overlap' PROVE SerialInv'
  BY DEF SerialInv
<1>1. ~ overlap /\ at[r] = "draws"
  BY DrawFacts
<1>2. /\ \A q \in Requests \ {r} : at[q] \notin {"draws", "cancels"} /\ at'[q] = at[q]
      /\ UNCHANGED <<now, told>>
  BY <1>1, Alone, DrawFacts
<1>3. last <= now[r] /\ Pending = {}
  BY <1>1, <1>2 DEF SerialInv, Pending
<1>4. /\ Advance(now[r]) \in Int /\ Advance(now[r]) <= Cap
      /\ Advance(now[r]) = Cap \/ Advance(now[r]) = tokens + now[r] - last
      /\ tokens' = Advance(now[r]) - PerToken /\ last' = now[r]
      /\ now[r] \in Int /\ tokens \in Int /\ last \in Int
  BY <1>3, AdvanceFacts, DrawFacts DEF TypeInv
<1>5. tokens' <= Cap
  BY <1>4, CapFacts
<1>6. \A q \in Requests : at'[q] # "draws"
  BY <1>2, DrawFacts
<1>7. OneAtATime'
  BY <1>2, <1>6 DEF OneAtATime, InAllow
<1>8. \A q \in Pending' : q = r /\ at'[r] = "cancels"
  BY <1>2 DEF Pending
<1>9. \A q \in Pending' : Owes(q)'
  <2>1. at'[r] = "cancels" => Owes(r)'
    BY <1>2, <1>4, DrawFacts DEF Owes
  <2> QED BY <1>8, <2>1
<1>10. ASSUME NEW q \in Requests, at'[q] = "limited", q \notin spoiled' PROVE HintKept(q)'
  <2>1. q # r /\ at[q] = "limited"
    BY <1>2, <1>10, DrawFacts
  <2>2. at'[r] = "cancels" /\ q \notin spoiled
    BY <1>10, <2>1, DrawFacts
  <2>3. Credit' = Advance(now[r])
    <3>1. Pending' # {}
      BY <2>2 DEF Pending
    <3> QED BY <1>4, <3>1, CapFacts DEF Credit
  <2>4. tokens >= PerToken \/ tokens + now[q] + told[q] * Second - last >= PerToken
    BY <1>1, <1>3, <2>1, <2>2 DEF SerialInv, HintKept, Credit
  <2>5. told[q] * Second \in Int /\ now[q] \in Int
    BY CapFacts DEF TypeInv
  <2>6. \/ Advance(now[r]) >= PerToken
        \/ Advance(now[r]) + now[q] + told[q] * Second - last' >= PerToken
    BY <1>3, <1>4, <2>4, <2>5, CapFacts
  <2> QED BY <1>2, <2>3, <2>6 DEF HintKept
<1>11. \A q \in Requests : HintKept(q)'
  BY <1>10 DEF HintKept
<1> QED BY <1>5, <1>6, <1>7, <1>9, <1>11 DEF SerialInv, Cap

LEMMA SerialRefuse ==
  ASSUME TypeInv, SerialInv, NEW r \in Requests, Refuse(r)
  PROVE  SerialInv'
<1> SUFFICES ASSUME ~ overlap' PROVE SerialInv'
  BY DEF SerialInv
<1>1. ~ overlap /\ at[r] = "cancels"
  BY RefuseFacts
<1>2. \A q \in Requests \ {r} : at[q] \notin {"draws", "cancels"}
  BY <1>1, Alone
<1>3. /\ at'[r] = "limited"
      /\ \A q \in Requests \ {r} : at'[q] = at[q] /\ told'[q] = told[q]
      /\ UNCHANGED <<now, act, spoiled>>
  BY RefuseFacts
<1>4. r \in Pending /\ Pending' = {} /\ OneAtATime'
      /\ \A q \in Requests : at'[q] # "draws"
  BY <1>1, <1>2, <1>3 DEF Pending, OneAtATime, InAllow
<1>5. /\ tokens <= Cap /\ Owes(r)
      /\ tokens \in Int /\ last \in Int /\ lastEvent \in Int /\ now[r] \in Int
  BY <1>1, <1>4 DEF SerialInv, TypeInv
<1>6. Advance(now[r]) = tokens
  BY <1>5, CapFacts DEF Advance, Lesser, Cap, Owes
<1>7. tokens' = tokens + PerToken /\ last' = last
  BY <1>5, <1>6, RefuseFacts, CapFacts DEF Owes, Lesser
<1>8. Credit' = Credit /\ Credit = tokens + PerToken
  BY <1>4, <1>7 DEF Credit
<1>9. tokens' <= Cap
  BY <1>5, <1>7, CapFacts DEF Owes
<1>10. HintKept(r)'
  <2>1. act[r] - now[r] \in Nat /\ act[r] - now[r] = - tokens
    BY <1>5 DEF Owes
  <2>2. /\ told'[r] * Second >= act[r] - now[r] /\ told'[r] \in Int
    BY <2>1, RoundedUp, RefuseFacts
  <2>3. told'[r] * Second \in Int
    BY <2>2, CapFacts
  <2>4. Credit + now[r] + told'[r] * Second - last >= PerToken
    BY <1>5, <1>8, <2>1, <2>2, <2>3, CapFacts DEF Owes
  <2> QED BY <1>3, <1>7, <1>8, <2>4 DEF HintKept
<1>11. ASSUME NEW q \in Requests \ {r} PROVE HintKept(q)'
  BY <1>1, <1>3, <1>7, <1>8 DEF SerialInv, HintKept
<1> QED BY <1>4, <1>9, <1>10, <1>11 DEF SerialInv, Cap

LEMMA SerialStep == TypeInv /\ TimeInv /\ SerialInv /\ [Next]_vars => SerialInv'
<1> SUFFICES ASSUME TypeInv, TimeInv, SerialInv, [Next]_vars PROVE SerialInv'
  OBVIOUS
<1>1. CASE TimePasses \/ Terminated \/ UNCHANGED vars
  <2>1. UNCHANGED <<tokens, last, lastEvent, at, now, act, told, overlap, spoiled>>
    BY <1>1 DEF TimePasses, Terminated, vars, bucketVars
  <2>2. Pending' = Pending /\ OneAtATime' = OneAtATime /\ Credit' = Credit
    BY <2>1 DEF Pending, OneAtATime, InAllow, Credit
  <2>3. \A r \in Requests : HintKept(r) => HintKept(r)'
    BY <2>1, <2>2 DEF HintKept
  <2>4. \A r \in Requests : Owes(r) => Owes(r)'
    BY <2>1 DEF Owes
  <2>5. Pending \subseteq Requests
    BY DEF Pending
  <2> QED BY <2>1, <2>2, <2>3, <2>4, <2>5 DEF SerialInv, Cap
<1> QED BY <1>1, SerialTake, SerialDraw, SerialRefuse DEF Next

-----------------------------------------------------------------------------

LEMMA IInvInit == Init => IInv
<1> SUFFICES ASSUME Init PROVE IInv
  OBVIOUS
<1>1. TypeInv
  <2>1. disorder \in BOOLEAN /\ overlap \in BOOLEAN
    BY Zenon DEF Init
  <2>2. tokens = Cap /\ tokens \in Int
    BY CapFacts DEF Init, Cap
  <2> QED BY <2>1, <2>2 DEF Init, TypeInv
<1>2. Charged = {} /\ Allowed = {} /\ Pending = {} /\ InAllow = {}
  BY DEF Init, Charged, Allowed, Pending, InAllow
<1>3. /\ Cardinality(Charged) = 0 /\ Cardinality(Allowed) = 0
      /\ IsFiniteSet(Charged)
  BY <1>2, FS_EmptySet
<1>4. TimeInv
  BY DEF Init, TimeInv
<1>5. Account /\ PendingApart
  BY <1>2, <1>3, CapFacts DEF Init, Account, PendingApart, Cap
<1>6. RateHeld
  BY <1>3, CapFacts DEF Init, RateHeld, Cap
<1>7. SerialInv
  BY <1>2, CapFacts DEF Init, SerialInv, OneAtATime, HintKept, Cap
<1> QED BY <1>1, <1>3, <1>4, <1>5, <1>6, <1>7 DEF IInv, OrderedInv

LEMMA Invariance == Spec => []IInv
<1>1. IInv /\ [Next]_vars => IInv'
  BY TypeStep, RateStep, SerialStep DEF IInv, RateInv
<1> QED BY <1>1, IInvInit, PTL DEF Spec

\* However its requests overlap, a client is admitted at most the burst and
\* what was refilled since, unless a time reached the bucket after a later
\* one: for any burst, rate, number of requests and length of time.
THEOREM RateHeldAlways == Spec => []RateHeld
<1>1. IInv => RateHeld
  BY DEF IInv
<1> QED BY <1>1, Invariance, PTL

\* A client that waits out its Retry-After finds a token, as long as its
\* requests come one after the other and none was admitted in between: for
\* any burst and any rate, those that are not a whole number of seconds per
\* token included.
THEOREM HintEnoughAlways == Spec => []HintEnough
<1>1. IInv => HintEnough
  <2> SUFFICES ASSUME IInv, ~ overlap, InAllow = {}, NEW r \in Requests,
                      at[r] = "limited", r \notin spoiled,
                      clock >= now[r] + told[r] * Second
               PROVE  Advance(clock) >= PerToken
    BY DEF HintEnough, HintHolds
  <2>1. /\ clock \in Int /\ last \in Int /\ tokens \in Int /\ now[r] \in Int
        /\ told[r] * Second \in Int /\ last <= clock
    BY CapFacts DEF IInv, TypeInv, TimeInv
  <2>2. Pending = {}
    BY DEF Pending, InAllow
  <2>3. tokens >= PerToken \/ tokens + now[r] + told[r] * Second - last >= PerToken
    BY <2>2 DEF IInv, SerialInv, HintKept, Credit
  <2>4. Advance(clock) = Cap \/ Advance(clock) = tokens + clock - last
    BY <2>1, AdvanceFacts DEF IInv
  <2> QED BY <2>1, <2>3, <2>4, CapFacts
<1> QED BY <1>1, Invariance, PTL

-----------------------------------------------------------------------------
(* The backoff: the retry budget, for every configuration of the durations *)
(* and for all headers whose delay can be added to the elapsed time        *)
(* without overflow.                                                       *)

\* Where the clock stands at each point of the retry loop.
Clock ==
    /\ hint \in Int /\ hint + MaxElapsed <= MaxDuration
    /\ begun <= MaxElapsed + MaxLag
    /\ time <= MaxElapsed + MaxLag + RequestTimeout
    /\ phase = "attempting" => time = begun
    /\ phase = "waiting" => wait >= 0 /\ time + wait <= MaxElapsed

BudgetInv == TypeOK /\ Clock

\* A header whose delay, added to any elapsed time short of the budget,
\* still is a duration.
HintsFit ==
    \A h \in Headers :
        /\ ParseRetryAfter(h) \in Int
        /\ ParseRetryAfter(h) + MaxElapsed <= MaxDuration

\* What next's clip leaves of a wait that does not overflow.
LEMMA ClipFits ==
  ASSUME TypeOK, Elapsed < MaxElapsed,
         NEW w \in Int, w >= 0, w + MaxElapsed <= MaxDuration
  PROVE  /\ Clipped(w) \in Int
         /\ Clipped(w) >= 0
         /\ time + Clipped(w) <= MaxElapsed
<1>1. Elapsed = time /\ time < MaxElapsed
  BY DurationsAssumption DEF Elapsed, Smaller, TypeOK
<1>2. Add(time, w) = time + w
  BY <1>1, DurationsAssumption DEF Add, TypeOK
<1> QED BY <1>1, <1>2, DurationsAssumption DEF Clipped, TypeOK

\* The jittered interval is a small non-negative duration.
LEMMA JitterFits ==
  ASSUME TypeOK, NEW j \in Jittered(interval)
  PROVE  j \in Int /\ j >= 0 /\ j + MaxElapsed <= MaxDuration
<1>1. interval \in 0..MaxInterval
  BY DEF TypeOK
<1>2. /\ interval \div 2 \in Int /\ interval \div 2 >= 0
      /\ interval \div 2 <= interval
  BY <1>1, DurationsAssumption
<1>3. /\ (3 * interval + 1) \div 2 \in Int
      /\ (3 * interval + 1) \div 2 <= 2 * interval + 1
  BY <1>1, DurationsAssumption
<1> QED BY <1>1, <1>2, <1>3, DurationsAssumption DEF Jittered, Larger

\* Every step of the retry loop keeps the clock within the budget.
LEMMA BudgetStep == ASSUME HintsFit PROVE BudgetInv /\ [RetryNext]_retryVars => BudgetInv'
<1> SUFFICES ASSUME BudgetInv, [RetryNext]_retryVars PROVE BudgetInv'
  OBVIOUS
<1> USE DurationsAssumption
<1>1. CASE AttemptEnds
  BY <1>1 DEF AttemptEnds, BudgetInv, TypeOK, Clock
<1>2. CASE AttemptFails
  <2>1. PICK h \in Headers : hint' = ParseRetryAfter(h)
    BY <1>2 DEF AttemptFails
  <2>2. hint' \in Int /\ hint' + MaxElapsed <= MaxDuration
    BY <2>1 DEF HintsFit
  <2> QED BY <1>2, <2>2 DEF AttemptFails, BudgetInv, TypeOK, Clock
<1>3. CASE Exhausted
  BY <1>3 DEF Exhausted, BudgetInv, TypeOK, Clock
<1>4. CASE NextWait
  <2>1. PICK j \in Jittered(interval) : wait' = Clipped(AtLeastHint(j))
    BY <1>4 DEF NextWait
  <2>2. j \in Int /\ j >= 0 /\ j + MaxElapsed <= MaxDuration
    BY JitterFits DEF BudgetInv
  <2>3. /\ AtLeastHint(j) \in Int /\ AtLeastHint(j) >= 0
        /\ AtLeastHint(j) + MaxElapsed <= MaxDuration
    BY <2>2 DEF AtLeastHint, Larger, BudgetInv, Clock
  <2>4. wait' \in Int /\ wait' >= 0 /\ time + wait' <= MaxElapsed
    BY <1>4, <2>1, <2>3, ClipFits DEF NextWait, BudgetInv
  <2>5. interval' \in 0..MaxInterval
    BY <1>4 DEF NextWait, Grown, Smaller, BudgetInv, TypeOK
  <2> QED BY <1>4, <2>4, <2>5 DEF NextWait, BudgetInv, TypeOK, Clock
<1>5. CASE TimerFires
  BY <1>5 DEF TimerFires, BudgetInv, TypeOK, Clock
<1>6. CASE UNCHANGED retryVars
  BY <1>6 DEF retryVars, BudgetInv, TypeOK, Clock
<1> QED BY <1>1, <1>2, <1>3, <1>4, <1>5, <1>6 DEF RetryNext, Done

\* Under every configuration, no attempt begins after the retry budget and
\* no payload holds its worker for longer than the budget and one request,
\* as long as the backend's Retry-After fits.
THEOREM BudgetKept == ASSUME HintsFit PROVE RetrySpec => []WithinBudget
<1>1. RetryInit => BudgetInv
  BY DurationsAssumption DEF RetryInit, BudgetInv, TypeOK, Clock, Smaller
<1>2. BudgetInv => WithinBudget
  BY DEF BudgetInv, Clock, WithinBudget
<1>3. BudgetInv /\ [RetryNext]_retryVars => BudgetInv'
  BY BudgetStep
<1> QED BY <1>1, <1>2, <1>3, PTL DEF RetrySpec
=============================================================================
