------------------------- MODULE RateLimiterProofs -------------------------
(***************************************************************************)
(* The rate limiter's map and list, and who draws on which bucket, proved  *)
(* for any requests, addresses and header entries, any cap, idle time and  *)
(* length of time.                                                         *)
(*                                                                         *)
(* MapMatchesList is inductive once the times of last use are known not to *)
(* lie ahead.  OneBucketPerSender rests on two facts: whatever way it      *)
(* arrives, a request of a sender is given the sender's one key, which no  *)
(* other sender has; and a sender has as many buckets made as evicted, and *)
(* one more while its key is in the map.                                   *)
(***************************************************************************)
EXTENDS RateLimiter, TLAPS, SequenceTheorems, FiniteSetTheorems, NaturalsInduction,
        WellFoundedInduction, FunctionTheorems

-----------------------------------------------------------------------------
(* Numbers and sequences.                                                  *)

LEMMA NatMinimum ==
  ASSUME NEW T \in SUBSET Nat, T # {}
  PROVE  \E x \in T : \A y \in T : x <= y
<1>1. PICK x \in T : \A y \in T : ~ (<<y, x>> \in OpToRel(<, Nat))
  BY NatLessThanWellFounded, WFMin
<1>2. ASSUME NEW y \in T, y < x PROVE FALSE
  <2>1. <<y, x>> \in Nat \X Nat /\ <<y, x>>[1] = y /\ <<y, x>>[2] = x
    OBVIOUS
  <2>2. <<y, x>>[1] < <<y, x>>[2]
    BY <1>2, <2>1, Zenon
  <2>3. <<y, x>> \in OpToRel(<, Nat)
    BY <2>1, <2>2, Zenon DEF OpToRel
  <2> QED BY <1>1, <2>3, Zenon
<1> QED BY <1>2

LEMMA MaxFacts ==
  ASSUME NEW n \in Nat, NEW T \in SUBSET (0..n), T # {}
  PROVE  Max(T) \in T /\ \A y \in T : Max(T) >= y
<1> DEFINE below == {n - x : x \in T}
<1>1. below \in SUBSET Nat /\ below # {}
  <2>1. \A x \in T : n - x \in Nat
    OBVIOUS
  <2>2. PICK x : x \in T
    OBVIOUS
  <2> QED BY <2>1, <2>2
<1>2. PICK z \in below : \A y \in below : z <= y
  BY <1>1, NatMinimum
<1>3. PICK x \in T : z = n - x
  BY <1>2
<1>4. ASSUME NEW y \in T PROVE x >= y
  <2>1. z <= n - y /\ n - y \in Nat
    BY <1>2
  <2> QED BY <1>3, <2>1
<1>5. \E w \in T : \A y \in T : w >= y
  BY <1>4
<1> QED BY <1>5, Zenon DEF Max

\* The first m elements.
LEMMA PrefixFacts ==
  ASSUME NEW S, NEW o \in Seq(S), NEW m \in 0..Len(o)
  PROVE  /\ SubSeq(o, 1, m) \in Seq(S)
         /\ Len(SubSeq(o, 1, m)) = m
         /\ DOMAIN SubSeq(o, 1, m) = 1..m
         /\ \A j \in 1..m : SubSeq(o, 1, m)[j] = o[j]
<1>1. Len(o) \in Nat /\ \A j \in 1..m : o[j] \in S
  BY LenProperties, ElementOfSeq
<1>2. /\ SubSeq(o, 1, m) \in Seq(S)
      /\ Len(SubSeq(o, 1, m)) = IF 1 <= m THEN m - 1 + 1 ELSE 0
      /\ \A j \in 1..m - 1 + 1 : SubSeq(o, 1, m)[j] = o[1 + j - 1]
  BY <1>1, SubSeqProperties
<1>3. Len(SubSeq(o, 1, m)) = m /\ m - 1 + 1 = m
  BY <1>1, <1>2
<1>4. DOMAIN SubSeq(o, 1, m) = 1..m
  BY <1>2, <1>3, LenProperties
<1> QED BY <1>2, <1>3, <1>4

\* An element in front of a sequence.
LEMMA FrontFacts ==
  ASSUME NEW S, NEW o \in Seq(S), NEW k \in S
  PROVE  /\ <<k>> \o o \in Seq(S)
         /\ Len(<<k>> \o o) = Len(o) + 1
         /\ DOMAIN (<<k>> \o o) = 1..Len(o) + 1
         /\ (<<k>> \o o)[1] = k
         /\ \A j \in 2..Len(o) + 1 : (<<k>> \o o)[j] = o[j - 1]
<1>1. <<k>> \in Seq(S) /\ Len(<<k>>) = 1 /\ <<k>>[1] = k /\ Len(o) \in Nat
  BY LenProperties
<1>2. /\ <<k>> \o o \in Seq(S)
      /\ Len(<<k>> \o o) = 1 + Len(o)
      /\ \A i \in 1..1 + Len(o) : (<<k>> \o o)[i] = IF i <= 1 THEN <<k>>[i] ELSE o[i - 1]
  BY <1>1, ConcatProperties
<1>3. DOMAIN (<<k>> \o o) = 1..1 + Len(o)
  BY <1>2, LenProperties
<1>4. (<<k>> \o o)[1] = k
  BY <1>1, <1>2
<1>5. \A j \in 2..Len(o) + 1 : (<<k>> \o o)[j] = o[j - 1]
  BY <1>1, <1>2
<1> QED BY <1>1, <1>2, <1>3, <1>4, <1>5

LEMMA RemoveFacts ==
  ASSUME NEW S, NEW o \in Seq(S), NEW i \in 1..Len(o)
  PROVE  /\ RemoveAt(o, i) \in Seq(S)
         /\ Len(RemoveAt(o, i)) = Len(o) - 1
         /\ \A j \in 1..Len(o) - 1 : RemoveAt(o, i)[j] = o[IF j < i THEN j ELSE j + 1]
<1> DEFINE n == Len(o)
           a == SubSeq(o, 1, i - 1)
           b == SubSeq(o, i + 1, n)
<1>1. n \in Nat /\ \A j \in 1..n : o[j] \in S
  BY LenProperties, ElementOfSeq
<1>2. a \in Seq(S) /\ Len(a) = i - 1 /\ \A j \in 1..i - 1 : a[j] = o[j]
  <2>1. i - 1 \in 0..n
    BY <1>1
  <2> QED BY <2>1, PrefixFacts
<1>3. b \in Seq(S) /\ Len(b) = n - i /\ \A j \in 1..n - i : b[j] = o[i + j]
  <2>1. \A j \in i + 1..n : o[j] \in S
    BY <1>1
  <2>2. /\ b \in Seq(S) /\ Len(b) = IF i + 1 <= n THEN n - (i + 1) + 1 ELSE 0
        /\ \A j \in 1..n - (i + 1) + 1 : b[j] = o[i + 1 + j - 1]
    BY <1>1, <2>1, SubSeqProperties
  <2>3. Len(b) = n - i /\ n - (i + 1) + 1 = n - i
    BY <1>1, <2>2
  <2>4. \A j \in 1..n - i : i + 1 + j - 1 = i + j
    BY <1>1
  <2> QED BY <2>2, <2>3, <2>4
<1> HIDE DEF a, b, n
<1>4. /\ a \o b \in Seq(S) /\ Len(a \o b) = Len(a) + Len(b)
      /\ \A j \in 1..Len(a) + Len(b) :
            (a \o b)[j] = IF j <= Len(a) THEN a[j] ELSE b[j - Len(a)]
  BY <1>2, <1>3, ConcatProperties
<1>5. Len(a) + Len(b) = n - 1
  BY <1>1, <1>2, <1>3 DEF n
<1>6. ASSUME NEW j \in 1..n - 1 PROVE (a \o b)[j] = o[IF j < i THEN j ELSE j + 1]
  <2>1. CASE j < i
    BY <1>1, <1>2, <1>4, <1>5, <2>1 DEF n
  <2>2. CASE ~ (j < i)
    <3>1. j - (i - 1) \in 1..n - i /\ i + (j - (i - 1)) = j + 1 /\ ~ (j <= i - 1)
      BY <1>1, <2>2 DEF n
    <3>2. (a \o b)[j] = b[j - (i - 1)]
      BY <1>2, <1>4, <1>5, <3>1
    <3> QED BY <1>3, <2>2, <3>1, <3>2
  <2> QED BY <2>1, <2>2
<1> QED BY <1>4, <1>5, <1>6 DEF a, b, n, RemoveAt
-----------------------------------------------------------------------------
(* The map and the list.                                                   *)

AllKeys == UNION {KeysOf(r) : r \in Requests}
Buckets == [owner : Senders, number : Nat]

TypeInv ==
    /\ header \in BOOLEAN /\ brackets \in BOOLEAN /\ bits \in PrefixBits
    /\ clock \in Nat
    /\ tick \in Int /\ tick <= clock
    /\ order \in Seq(AllKeys)
    /\ visitors \in [ToSet(order) -> [bucket : Buckets, lastSeen : Nat]]
    /\ at \in [Requests -> {"idle", "draws", "allowed", "limited"}]
    /\ bucket \in [Requests -> Buckets]
    /\ made \in [Senders -> Nat]

\* Nobody was last seen in the future.
SeenInv == \A i \in DOMAIN order : visitors[order[i]].lastSeen <= clock

ListInv == SeenInv /\ MapMatchesList

LEMMA LimitFacts ==
    /\ Address \in [Requests -> Addresses]
    /\ MaxVisitors \in Nat \ {0} /\ StaleAfter \in Nat \ {0}
  BY RateLimiterAssumption

LEMMA OrderFacts ==
  ASSUME TypeInv
  PROVE  /\ Len(order) \in Nat /\ DOMAIN order = 1..Len(order)
         /\ \A i \in DOMAIN order : order[i] \in AllKeys /\ order[i] \in DOMAIN visitors
         /\ \A i \in DOMAIN order : visitors[order[i]].lastSeen \in Nat
         /\ DOMAIN visitors = ToSet(order)
         /\ \A k \in ToSet(order) : \E i \in DOMAIN order : order[i] = k
<1>1. Len(order) \in Nat /\ DOMAIN order = 1..Len(order)
  BY LenProperties DEF TypeInv
<1>2. /\ \A i \in DOMAIN order : order[i] \in AllKeys
      /\ DOMAIN visitors = ToSet(order)
  BY <1>1, ElementOfSeq DEF TypeInv
<1>3. /\ \A i \in DOMAIN order : order[i] \in ToSet(order)
      /\ \A k \in ToSet(order) : \E i \in DOMAIN order : order[i] = k
  BY DEF ToSet
<1>4. \A k \in ToSet(order) : visitors[k].lastSeen \in Nat
  BY DEF TypeInv
<1> QED BY <1>1, <1>2, <1>3, <1>4

\* Whatever the keys, senders are fixed by the options.
LEMMA OptionsFixed ==
  ASSUME UNCHANGED options
  PROVE  /\ AllKeys' = AllKeys /\ Senders' = Senders /\ Buckets' = Buckets
         /\ \A r : SenderOf(r)' = SenderOf(r)
<1>1. header' = header /\ brackets' = brackets /\ bits' = bits
  BY DEF options
<1>2. AllKeys' = AllKeys
  BY <1>1 DEF AllKeys, KeysOf
<1>3. \A r : SenderOf(r)' = SenderOf(r)
  BY <1>1 DEF SenderOf
<1> QED BY <1>1, <1>2, <1>3 DEF Senders, Buckets, SenderOf

\* A client the map knows goes to the front of the list.
LEMMA KnownFacts ==
  ASSUME TypeInv, ListInv, NEW r \in Requests, NEW k, AllowKnown(r, k)
  PROVE  /\ order' \in Seq(AllKeys)
         /\ \E i \in DOMAIN order :
              /\ order[i] = k
              /\ DOMAIN order' = DOMAIN order /\ Len(order') = Len(order)
              /\ order'[1] = k
              /\ \A j \in DOMAIN order \ {1} :
                    order'[j] = order[IF j <= i THEN j - 1 ELSE j]
         /\ ToSet(order') = ToSet(order)
         /\ k \in DOMAIN visitors
         /\ visitors' \in [ToSet(order) -> [bucket : Buckets, lastSeen : Nat]]
         /\ visitors'[k].lastSeen = clock /\ visitors'[k].bucket = visitors[k].bucket
         /\ \A v \in ToSet(order) \ {k} : visitors'[v] = visitors[v]
<1> DEFINE i == CHOOSE j \in DOMAIN order : order[j] = k
           rest == RemoveAt(order, i)
<1>1. k \in ToSet(order) /\ k \in AllKeys /\ i \in DOMAIN order /\ order[i] = k
  BY OrderFacts DEF AllowKnown
<1>2. order' = <<k>> \o rest
  BY DEF AllowKnown, MovedToFront
<1> HIDE DEF i
<1>3. /\ Len(order) \in Nat /\ DOMAIN order = 1..Len(order)
      /\ order \in Seq(AllKeys) /\ i \in 1..Len(order)
  BY <1>1, OrderFacts DEF TypeInv
<1>4. /\ rest \in Seq(AllKeys) /\ Len(rest) = Len(order) - 1
      /\ \A j \in 1..Len(order) - 1 : rest[j] = order[IF j < i THEN j ELSE j + 1]
  BY <1>3, RemoveFacts
<1> HIDE DEF rest
<1>5. /\ order' \in Seq(AllKeys) /\ Len(order') = Len(rest) + 1
      /\ DOMAIN order' = 1..Len(rest) + 1
      /\ order'[1] = k
      /\ \A j \in 2..Len(rest) + 1 : order'[j] = rest[j - 1]
  BY <1>1, <1>2, <1>4, FrontFacts
<1>6. Len(rest) + 1 = Len(order)
  BY <1>3, <1>4
<1>7. ASSUME NEW j \in DOMAIN order \ {1}
      PROVE  order'[j] = order[IF j <= i THEN j - 1 ELSE j]
  <2>1. j \in 2..Len(rest) + 1 /\ j - 1 \in 1..Len(order) - 1
    BY <1>3, <1>6
  <2>2. order'[j] = order[IF j - 1 < i THEN j - 1 ELSE j - 1 + 1]
    BY <1>4, <1>5, <2>1
  <2>3. (j - 1 < i <=> j <= i) /\ j - 1 + 1 = j
    BY <1>3, <2>1
  <2> QED BY <2>2, <2>3
<1>8. ToSet(order') = ToSet(order)
  <2>1. ASSUME NEW j \in DOMAIN order' PROVE order'[j] \in ToSet(order)
    <3>1. CASE j = 1
      BY <1>1, <1>5, <3>1
    <3>2. CASE j # 1
      <4>1. (IF j <= i THEN j - 1 ELSE j) \in DOMAIN order /\ j \in DOMAIN order \ {1}
        BY <1>3, <1>5, <1>6, <3>2
      <4> QED BY <1>7, <4>1 DEF ToSet
    <3> QED BY <3>1, <3>2
  <2>2. ASSUME NEW j \in DOMAIN order PROVE order[j] \in ToSet(order')
    <3>1. CASE j = i
      <4>1. 1 \in DOMAIN order'
        BY <1>3, <1>5, <1>6
      <4>2. order[j] = k
        BY <1>1, <3>1, Zenon
      <4> QED BY <1>5, <4>1, <4>2 DEF ToSet
    <3>2. CASE j < i
      <4>1. PICK l : l = j + 1
        OBVIOUS
      <4>2. /\ l \in DOMAIN order' /\ l \in DOMAIN order \ {1}
            /\ (IF l <= i THEN l - 1 ELSE l) = j
        BY <1>3, <1>5, <1>6, <3>2, <4>1
      <4>3. order'[l] = order[IF l <= i THEN l - 1 ELSE l]
        BY <1>7, <4>2
      <4> QED BY <4>2, <4>3 DEF ToSet
    <3>3. CASE j > i
      <4>1. j \in DOMAIN order' /\ j \in DOMAIN order \ {1} /\ ~ (j <= i)
        BY <1>3, <1>5, <1>6, <3>3
      <4>2. order'[j] = order[j]
        BY <1>7, <4>1
      <4> QED BY <4>1, <4>2 DEF ToSet
    <3> QED BY <1>3, <3>1, <3>2, <3>3
  <2> QED BY <2>1, <2>2 DEF ToSet
<1>9. /\ visitors' \in [ToSet(order) -> [bucket : Buckets, lastSeen : Nat]]
      /\ visitors'[k].lastSeen = clock /\ visitors'[k].bucket = visitors[k].bucket
      /\ \A v \in ToSet(order) \ {k} : visitors'[v] = visitors[v]
  BY <1>1 DEF AllowKnown, TypeInv
<1>10. /\ order[i] = k
       /\ DOMAIN order' = DOMAIN order /\ Len(order') = Len(order)
       /\ \A j \in DOMAIN order \ {1} : order'[j] = order[IF j <= i THEN j - 1 ELSE j]
  BY <1>1, <1>3, <1>5, <1>6, <1>7
<1> QED BY <1>1, <1>3, <1>5, <1>8, <1>9, <1>10 DEF AllowKnown

\* The map's size, which allow compares with the cap, is the list's length.
LEMMA SizeFacts ==
  ASSUME TypeInv, ListInv
  PROVE  Cardinality(DOMAIN visitors) = Len(order)
<1>1. Len(order) \in Nat /\ order \in [1..Len(order) -> ToSet(order)]
  <2>1. order = [i \in 1..Len(order) |-> order[i]]
    BY OrderFacts DEF TypeInv
  <2>2. \A i \in 1..Len(order) : order[i] \in ToSet(order)
    BY OrderFacts DEF ToSet
  <2>3. Len(order) \in Nat
    BY OrderFacts
  <2> QED BY <2>1, <2>2, <2>3
<1>2. /\ \A i, j \in 1..Len(order) : order[i] = order[j] => i = j
      /\ \A k \in ToSet(order) : \E i \in 1..Len(order) : order[i] = k
  BY OrderFacts DEF ListInv, MapMatchesList, IsInjective
<1>3. order \in Bijection(1..Len(order), ToSet(order))
  BY <1>1, <1>2, Fun_IsBij
<1>4. ExistsBijection(1..Len(order), ToSet(order))
  BY <1>3 DEF ExistsBijection
<1> QED BY <1>1, <1>4, FS_CountingElements, OrderFacts

\* A new client goes in front of those that are kept.
LEMMA NewFacts ==
  ASSUME TypeInv, ListInv, NEW r \in Requests, NEW k \in AllKeys, AllowNew(r, k)
  PROVE  \E m \in 0..Len(order) :
            /\ order' \in Seq(AllKeys)
            /\ m < MaxVisitors
            /\ Len(order') = m + 1 /\ DOMAIN order' = 1..m + 1
            /\ order'[1] = k
            /\ \A j \in 2..m + 1 : order'[j] = order[j - 1]
            /\ k \notin ToSet(order)
            /\ DOMAIN visitors' = ToSet(order')
            /\ visitors' = [v \in ToSet(order') |->
                              IF v = k THEN NewVisitor(r) ELSE visitors[v]]
            /\ visitors'[k] = NewVisitor(r)
            /\ \A v \in ToSet(order') \ {k} : visitors'[v] = visitors[v]
            /\ Dropped(Kept) = ToSet(order) \ ToSet(order')
<1> DEFINE m == IF Len(order) >= MaxVisitors THEN MaxVisitors - 1 ELSE Len(order)
<1>1. /\ Len(order) \in Nat /\ order \in Seq(AllKeys)
      /\ m \in 0..Len(order) /\ m < MaxVisitors
  BY OrderFacts, LimitFacts DEF TypeInv
<1>2. Kept = SubSeq(order, 1, m)
  BY <1>1, SizeFacts, SubSeqFull, LimitFacts DEF Kept
<1>3. order' = <<k>> \o Kept
  BY DEF AllowNew
<1> HIDE DEF m
<1>4. /\ Kept \in Seq(AllKeys) /\ Len(Kept) = m
      /\ \A j \in 1..m : Kept[j] = order[j]
  BY <1>1, <1>2, PrefixFacts
<1>5. /\ order' \in Seq(AllKeys) /\ Len(order') = m + 1
      /\ DOMAIN order' = 1..m + 1
      /\ order'[1] = k
      /\ \A j \in 2..m + 1 : order'[j] = Kept[j - 1]
  BY <1>3, <1>4, FrontFacts
<1>6. \A j \in 2..m + 1 : order'[j] = order[j - 1]
  <2>1. \A j \in 2..m + 1 : j - 1 \in 1..m
    BY <1>1
  <2> QED BY <1>4, <1>5, <2>1
<1>7. k \notin ToSet(order) /\ DOMAIN visitors = ToSet(order)
  BY OrderFacts DEF AllowNew
<1>8. k \in ToSet(order')
  <2>1. 1 \in DOMAIN order'
    BY <1>1, <1>5
  <2> QED BY <1>5, <2>1 DEF ToSet
<1>9. ToSet(order') = ToSet(Kept) \cup {k}
  <2>1. DOMAIN Kept = 1..m
    BY <1>4, LenProperties
  <2>2. ASSUME NEW v \in ToSet(order') PROVE v \in ToSet(Kept) \cup {k}
    <3>1. PICK j \in 1..m + 1 : v = order'[j]
      BY <1>5 DEF ToSet
    <3>2. CASE j = 1
      BY <1>5, <3>1, <3>2
    <3>3. CASE j # 1
      <4>1. j \in 2..m + 1 /\ j - 1 \in 1..m
        BY <1>1, <3>3
      <4> QED BY <1>5, <2>1, <3>1, <4>1 DEF ToSet
    <3> QED BY <3>2, <3>3
  <2>3. ASSUME NEW v \in ToSet(Kept) PROVE v \in ToSet(order')
    <3>1. PICK j \in 1..m : v = Kept[j]
      BY <2>1 DEF ToSet
    <3>2. PICK l : l = j + 1
      OBVIOUS
    <3>3. l \in 2..m + 1 /\ l \in DOMAIN order' /\ l - 1 = j
      BY <1>1, <1>5, <3>2
    <3>4. order'[l] = v
      BY <1>5, <3>1, <3>3
    <3> QED BY <3>3, <3>4 DEF ToSet
  <2> QED BY <1>8, <2>2, <2>3
<1>10. \A v \in ToSet(Kept) : v \in ToSet(order)
  <2>1. DOMAIN Kept = 1..m
    BY <1>4, LenProperties
  <2> QED BY <1>1, <1>4, <2>1, OrderFacts DEF ToSet
<1>11. /\ Dropped(Kept) = ToSet(order) \ ToSet(order')
       /\ (DOMAIN visitors \ Dropped(Kept)) \cup {k} = ToSet(order')
  BY <1>7, <1>9, <1>10 DEF Dropped
<1>12. visitors' = [v \in ToSet(order') |-> IF v = k THEN NewVisitor(r) ELSE visitors[v]]
  BY <1>11 DEF AllowNew
<1>13. /\ DOMAIN visitors' = ToSet(order')
       /\ visitors'[k] = NewVisitor(r)
       /\ \A v \in ToSet(order') \ {k} : visitors'[v] = visitors[v]
  BY <1>8, <1>12
<1> QED BY <1>1, <1>5, <1>6, <1>7, <1>11, <1>12, <1>13

\* A sweep keeps the first of the list, down to the last one that was used
\* recently enough.
LEMMA SweepFacts ==
  ASSUME TypeInv, ListInv, Sweep
  PROVE  \E m \in 0..Len(order) :
            /\ order' \in Seq(AllKeys)
            /\ Len(order') = m /\ DOMAIN order' = 1..m
            /\ \A j \in 1..m : order'[j] = order[j]
            /\ DOMAIN visitors' = ToSet(order')
            /\ \A v \in ToSet(order') : visitors'[v] = visitors[v]
            /\ visitors' = [v \in ToSet(order') |-> visitors[v]]
            /\ m # 0 => tick - visitors[order[m]].lastSeen <= StaleAfter
            /\ \A j \in DOMAIN order :
                  j > m => tick - visitors[order[j]].lastSeen > StaleAfter
<1> DEFINE recent == {i \in DOMAIN order : tick - visitors[order[i]].lastSeen <= StaleAfter}
           m == Max({0} \cup recent)
<1>1. /\ Len(order) \in Nat /\ order \in Seq(AllKeys) /\ DOMAIN order = 1..Len(order)
  BY OrderFacts DEF TypeInv
<1>2. {0} \cup recent \in SUBSET (0..Len(order))
  BY <1>1
<1>3. m \in {0} \cup recent /\ \A y \in {0} \cup recent : m >= y
  BY <1>1, <1>2, MaxFacts
<1>4. /\ order' = SubSeq(order, 1, m)
      /\ visitors' = Restrict(visitors, DOMAIN visitors \ Dropped(order'))
  BY DEF Sweep, Fresh
<1> HIDE DEF m
<1>5. m \in 0..Len(order)
  BY <1>2, <1>3
<1>6. /\ order' \in Seq(AllKeys) /\ Len(order') = m /\ DOMAIN order' = 1..m
      /\ \A j \in 1..m : order'[j] = order[j]
  BY <1>1, <1>4, <1>5, PrefixFacts
<1>7. /\ DOMAIN visitors' = ToSet(order')
      /\ \A v \in ToSet(order') : visitors'[v] = visitors[v]
      /\ visitors' = [v \in ToSet(order') |-> visitors[v]]
  <2>1. \A v \in ToSet(order') : v \in ToSet(order)
    BY <1>1, <1>5, <1>6 DEF ToSet
  <2>2. DOMAIN visitors \ Dropped(order') = ToSet(order')
    BY <2>1, OrderFacts DEF Dropped
  <2>3. visitors' = [v \in ToSet(order') |-> visitors[v]]
    BY <1>4, <2>2 DEF Restrict
  <2> QED BY <2>3
<1>8. m # 0 => tick - visitors[order[m]].lastSeen <= StaleAfter
  BY <1>3
<1>9. ASSUME NEW j \in DOMAIN order, j > m
      PROVE  tick - visitors[order[j]].lastSeen > StaleAfter
  <2>1. j \notin recent
    BY <1>1, <1>3, <1>5, <1>9
  <2>2. visitors[order[j]].lastSeen \in Nat /\ tick \in Int
    BY OrderFacts DEF TypeInv
  <2> QED BY <2>1, <2>2, LimitFacts
<1> QED BY <1>5, <1>6, <1>7, <1>8, <1>9
LEMMA KnownList ==
  ASSUME TypeInv, ListInv, NEW r \in Requests, NEW k, AllowKnown(r, k)
  PROVE  ListInv'
<1>1. PICK i \in DOMAIN order :
        /\ order[i] = k
        /\ DOMAIN order' = DOMAIN order /\ Len(order') = Len(order)
        /\ order'[1] = k
        /\ \A j \in DOMAIN order \ {1} : order'[j] = order[IF j <= i THEN j - 1 ELSE j]
  BY KnownFacts
<1>2. /\ ToSet(order') = ToSet(order) /\ k \in ToSet(order)
      /\ visitors'[k].lastSeen = clock /\ clock' = clock
      /\ \A v \in ToSet(order) \ {k} : visitors'[v] = visitors[v]
      /\ DOMAIN visitors' = ToSet(order)
      /\ clock \in Nat
  BY KnownFacts, OrderFacts DEF AllowKnown, Draws, TypeInv
<1>3. /\ Len(order) \in Nat /\ DOMAIN order = 1..Len(order)
      /\ \A j \in DOMAIN order : /\ order[j] \in ToSet(order)
                                 /\ visitors[order[j]].lastSeen \in Nat
                                 /\ visitors[order[j]].lastSeen <= clock
      /\ IsInjective(order)
  BY OrderFacts DEF ListInv, SeenInv, MapMatchesList, ToSet
<1> DEFINE old(j) == IF j <= i THEN j - 1 ELSE j
<1>4. ASSUME NEW j \in DOMAIN order, j # 1
      PROVE  /\ old(j) \in DOMAIN order /\ old(j) # i /\ order'[j] = order[old(j)]
             /\ order[old(j)] # k
             /\ visitors'[order'[j]] = visitors[order[old(j)]]
  <2>1. old(j) \in DOMAIN order /\ old(j) # i /\ order'[j] = order[old(j)]
    BY <1>1, <1>3, <1>4
  <2> HIDE DEF old
  <2>2. order[old(j)] # k
    BY <1>1, <1>3, <2>1 DEF IsInjective
  <2> QED BY <1>2, <1>3, <2>1, <2>2
<1>5. ASSUME NEW j \in DOMAIN order, NEW l \in DOMAIN order, j # 1, l # 1, j < l
      PROVE  old(j) < old(l)
  BY <1>1, <1>3, <1>5
<1>6. ASSUME NEW j \in DOMAIN order, NEW l \in DOMAIN order, j # 1, l # 1, old(j) = old(l)
      PROVE  j = l
  BY <1>1, <1>3, <1>6
<1> HIDE DEF old
<1>7. SeenInv'
  <2> SUFFICES ASSUME NEW j \in DOMAIN order PROVE visitors'[order'[j]].lastSeen <= clock
    BY <1>1, <1>2 DEF SeenInv
  <2>1. CASE j = 1
    BY <1>1, <1>2, <2>1
  <2>2. CASE j # 1
    BY <1>3, <1>4, <2>2
  <2> QED BY <2>1, <2>2
<1>8. IsInjective(order')
  <2> SUFFICES ASSUME NEW j \in DOMAIN order, NEW l \in DOMAIN order, order'[j] = order'[l]
               PROVE  j = l
    BY <1>1 DEF IsInjective
  <2>1. CASE j = 1 \/ l = 1
    BY <1>1, <1>4, <2>1
  <2>2. CASE j # 1 /\ l # 1
    <3>1. order[old(j)] = order[old(l)]
      BY <1>4, <2>2
    <3>2. old(j) = old(l)
      BY <1>3, <1>4, <2>2, <3>1 DEF IsInjective
    <3> QED BY <1>6, <2>2, <3>2
  <2> QED BY <2>1, <2>2
<1>9. ASSUME NEW j \in DOMAIN order, NEW l \in DOMAIN order, j < l
      PROVE  visitors'[order'[j]].lastSeen >= visitors'[order'[l]].lastSeen
  <2>1. l # 1
    BY <1>3, <1>9
  <2>2. CASE j = 1
    BY <1>1, <1>2, <1>3, <1>4, <2>1, <2>2
  <2>3. CASE j # 1
    <3>1. old(j) < old(l)
      BY <1>5, <1>9, <2>1, <2>3
    <3>2. visitors[order[old(j)]].lastSeen >= visitors[order[old(l)]].lastSeen
      BY <1>4, <2>1, <2>3, <3>1 DEF ListInv, MapMatchesList
    <3> QED BY <1>4, <2>1, <2>3, <3>2
  <2> QED BY <2>2, <2>3
<1>10. DOMAIN visitors' = ToSet(order') /\ Len(order') <= MaxVisitors
  BY <1>1, <1>2 DEF ListInv, MapMatchesList
<1>11. MapMatchesList'
  BY <1>1, <1>8, <1>9, <1>10 DEF MapMatchesList
<1> QED BY <1>7, <1>11 DEF ListInv

LEMMA NewList ==
  ASSUME TypeInv, ListInv, NEW r \in Requests, NEW k \in AllKeys, AllowNew(r, k)
  PROVE  ListInv'
<1>1. PICK m \in 0..Len(order) :
        /\ m < MaxVisitors
        /\ Len(order') = m + 1 /\ DOMAIN order' = 1..m + 1
        /\ order'[1] = k
        /\ \A j \in 2..m + 1 : order'[j] = order[j - 1]
        /\ k \notin ToSet(order)
        /\ DOMAIN visitors' = ToSet(order')
        /\ visitors'[k] = NewVisitor(r)
        /\ \A v \in ToSet(order') \ {k} : visitors'[v] = visitors[v]
  BY NewFacts
<1>2. /\ visitors'[k].lastSeen = clock /\ clock' = clock /\ clock \in Nat
  BY <1>1 DEF NewVisitor, AllowNew, Draws, TypeInv
<1>3. /\ Len(order) \in Nat /\ DOMAIN order = 1..Len(order)
      /\ \A j \in DOMAIN order : /\ order[j] \in ToSet(order)
                                 /\ visitors[order[j]].lastSeen \in Nat
                                 /\ visitors[order[j]].lastSeen <= clock
      /\ IsInjective(order)
  BY OrderFacts DEF ListInv, SeenInv, MapMatchesList, ToSet
<1>4. ASSUME NEW j \in DOMAIN order', j # 1
      PROVE  /\ j - 1 \in DOMAIN order /\ order'[j] = order[j - 1] /\ order'[j] # k
             /\ visitors'[order'[j]] = visitors[order[j - 1]]
  <2>1. j \in 2..m + 1 /\ j - 1 \in DOMAIN order
    BY <1>1, <1>3, <1>4
  <2>2. order'[j] = order[j - 1] /\ order'[j] # k
    BY <1>1, <1>3, <2>1
  <2>3. order'[j] \in ToSet(order')
    BY DEF ToSet
  <2> QED BY <1>1, <2>1, <2>2, <2>3
<1>5. SeenInv'
  <2> SUFFICES ASSUME NEW j \in DOMAIN order' PROVE visitors'[order'[j]].lastSeen <= clock
    BY <1>2 DEF SeenInv
  <2>1. CASE j = 1
    BY <1>1, <1>2, <2>1
  <2>2. CASE j # 1
    BY <1>3, <1>4, <2>2
  <2> QED BY <2>1, <2>2
<1>6. IsInjective(order')
  <2> SUFFICES ASSUME NEW j \in DOMAIN order', NEW l \in DOMAIN order',
                      order'[j] = order'[l]
               PROVE  j = l
    BY DEF IsInjective
  <2>1. CASE j = 1 \/ l = 1
    BY <1>1, <1>4, <2>1
  <2>2. CASE j # 1 /\ l # 1
    <3>1. j - 1 = l - 1
      BY <1>3, <1>4, <2>2 DEF IsInjective
    <3> QED BY <1>1, <3>1
  <2> QED BY <2>1, <2>2
<1>7. ASSUME NEW j \in DOMAIN order', NEW l \in DOMAIN order', j < l
      PROVE  visitors'[order'[j]].lastSeen >= visitors'[order'[l]].lastSeen
  <2>1. l # 1
    BY <1>1, <1>7
  <2>2. CASE j = 1
    BY <1>1, <1>2, <1>3, <1>4, <2>1, <2>2
  <2>3. CASE j # 1
    <3>1. j - 1 < l - 1
      BY <1>1, <1>7
    <3>2. visitors[order[j - 1]].lastSeen >= visitors[order[l - 1]].lastSeen
      BY <1>4, <2>1, <2>3, <3>1 DEF ListInv, MapMatchesList
    <3> QED BY <1>4, <2>1, <2>3, <3>2
  <2> QED BY <2>2, <2>3
<1>8. Len(order') <= MaxVisitors
  BY <1>1, <1>3, LimitFacts
<1>9. MapMatchesList'
  BY <1>1, <1>6, <1>7, <1>8 DEF MapMatchesList
<1> QED BY <1>5, <1>9 DEF ListInv

LEMMA SweepList ==
  ASSUME TypeInv, ListInv, Sweep
  PROVE  ListInv'
<1>1. PICK m \in 0..Len(order) :
        /\ Len(order') = m /\ DOMAIN order' = 1..m
        /\ \A j \in 1..m : order'[j] = order[j]
        /\ DOMAIN visitors' = ToSet(order')
        /\ \A v \in ToSet(order') : visitors'[v] = visitors[v]
  BY SweepFacts
<1>2. clock' = clock
  BY DEF Sweep
<1>3. /\ Len(order) \in Nat /\ DOMAIN order = 1..Len(order) /\ IsInjective(order)
  BY OrderFacts DEF ListInv, MapMatchesList
<1>4. \A j \in DOMAIN order' : /\ j \in DOMAIN order /\ order'[j] = order[j]
                               /\ visitors'[order'[j]] = visitors[order[j]]
  BY <1>1, <1>3 DEF ToSet
<1>5. SeenInv'
  BY <1>2, <1>4 DEF ListInv, SeenInv
<1>6. IsInjective(order')
  BY <1>3, <1>4 DEF IsInjective
<1>7. \A j, l \in DOMAIN order' :
        j < l => visitors'[order'[j]].lastSeen >= visitors'[order'[l]].lastSeen
  BY <1>4 DEF ListInv, MapMatchesList
<1>8. Len(order') <= MaxVisitors
  BY <1>1, <1>3, LimitFacts DEF ListInv, MapMatchesList
<1>9. MapMatchesList'
  BY <1>1, <1>6, <1>7, <1>8 DEF MapMatchesList
<1> QED BY <1>5, <1>9 DEF ListInv

LEMMA TypeInit ==
  ASSUME Init
  PROVE  TypeInv /\ ListInv
<1>1. order = << >> /\ order \in Seq(AllKeys) /\ DOMAIN order = {} /\ Len(order) = 0
      /\ ToSet(order) = {}
  BY DEF Init, ToSet
<1>2. DOMAIN visitors = {} /\ visitors \in [{} -> [bucket : Buckets, lastSeen : Nat]]
  BY DEF Init
<1>3. \A r \in Requests : SenderOf(r) \in Senders
  BY DEF Senders
<1>4. bucket \in [Requests -> Buckets] /\ made \in [Senders -> Nat]
  BY <1>3 DEF Init, Buckets, NoBucket
<1>5. TypeInv
  <2>1. brackets \in BOOLEAN
    BY DEF Init
  <2> QED BY <1>1, <1>2, <1>4, <2>1 DEF Init, TypeInv
<1>6. IsInjective(order)
  BY <1>1 DEF IsInjective
<1> QED BY <1>1, <1>2, <1>5, <1>6, LimitFacts DEF ListInv, SeenInv, MapMatchesList

LEMMA DrawsType ==
  ASSUME TypeInv, NEW r \in Requests, NEW k \in DOMAIN visitors', Draws(r, k),
         visitors' \in [DOMAIN visitors' -> [bucket : Buckets, lastSeen : Nat]]
  PROVE  /\ UNCHANGED options
         /\ clock' \in Nat /\ tick' \in Int /\ tick' <= clock'
         /\ header' \in BOOLEAN /\ brackets' \in BOOLEAN /\ bits' \in PrefixBits
         /\ at' \in [Requests -> {"idle", "draws", "allowed", "limited"}]
         /\ bucket' \in [Requests -> Buckets']
<1>1. /\ UNCHANGED options /\ header' = header /\ brackets' = brackets /\ bits' = bits
      /\ clock' = clock /\ tick' = tick
  BY DEF Draws, options
<1>2. bucket' \in [Requests -> Buckets]
  BY DEF Draws, TypeInv
<1> QED BY <1>1, <1>2, OptionsFixed DEF Draws, TypeInv

LEMMA TypeStep ==
  ASSUME TypeInv, ListInv, [Next]_vars
  PROVE  TypeInv'
<1>0. ASSUME NEW r \in Requests PROVE SenderOf(r) \in Senders /\ NoBucket(r) \in Buckets
  BY DEF Senders, Buckets, NoBucket
<1>1. ASSUME NEW r \in Requests, NEW k \in KeysOf(r), AllowKnown(r, k)
      PROVE  TypeInv'
  <2>1. /\ order' \in Seq(AllKeys) /\ ToSet(order') = ToSet(order)
        /\ k \in DOMAIN visitors /\ DOMAIN visitors = ToSet(order)
        /\ visitors' \in [ToSet(order) -> [bucket : Buckets, lastSeen : Nat]]
        /\ Draws(r, k) /\ made' = made
    BY <1>1, KnownFacts, OrderFacts DEF AllowKnown
  <2>2. DOMAIN visitors' = ToSet(order)
    BY <2>1
  <2> QED BY <2>1, <2>2, DrawsType, OptionsFixed DEF TypeInv
<1>2. ASSUME NEW r \in Requests, NEW k \in KeysOf(r), AllowNew(r, k)
      PROVE  TypeInv'
  <2>1. k \in AllKeys
    BY DEF AllKeys
  <2>2. PICK m \in 0..Len(order) :
           /\ order' \in Seq(AllKeys)
           /\ DOMAIN order' = 1..m + 1
           /\ order'[1] = k
           /\ \A j \in 2..m + 1 : order'[j] = order[j - 1]
           /\ DOMAIN visitors' = ToSet(order')
           /\ visitors' = [v \in ToSet(order') |->
                             IF v = k THEN NewVisitor(r) ELSE visitors[v]]
           /\ visitors'[k] = NewVisitor(r)
           /\ \A v \in ToSet(order') \ {k} : visitors'[v] = visitors[v]
    BY <1>2, <2>1, NewFacts
  <2>3. ASSUME NEW v \in ToSet(order'), v # k PROVE v \in ToSet(order)
    <3>1. PICK j \in 1..m + 1 : v = order'[j]
      BY <2>2 DEF ToSet
    <3>2. j - 1 \in DOMAIN order /\ v = order[j - 1]
      BY <2>2, <2>3, <3>1, OrderFacts
    <3> QED BY <3>2 DEF ToSet
  <2>4. NewVisitor(r) \in [bucket : Buckets, lastSeen : Nat]
    BY <1>0 DEF NewVisitor, Buckets, TypeInv
  <2>5. k \in ToSet(order')
    <3>1. 1 \in DOMAIN order'
      BY <2>2
    <3> QED BY <2>2, <3>1 DEF ToSet
  <2>6. visitors' \in [ToSet(order') -> [bucket : Buckets, lastSeen : Nat]]
    <3>1. \A v \in ToSet(order') : visitors'[v] \in [bucket : Buckets, lastSeen : Nat]
      BY <2>2, <2>3, <2>4 DEF TypeInv
    <3>2. visitors' = [v \in ToSet(order') |-> visitors'[v]]
      BY <2>2
    <3> QED BY <3>1, <3>2
  <2>7. Draws(r, k) /\ made' \in [Senders -> Nat]
    BY <1>0, <1>2 DEF AllowNew, TypeInv
  <2> QED BY <2>2, <2>5, <2>6, <2>7, DrawsType, OptionsFixed DEF TypeInv
<1>3. CASE Sweep
  <2>1. PICK m \in 0..Len(order) :
           /\ order' \in Seq(AllKeys)
           /\ DOMAIN order' = 1..m
           /\ \A j \in 1..m : order'[j] = order[j]
           /\ DOMAIN visitors' = ToSet(order')
           /\ \A v \in ToSet(order') : visitors'[v] = visitors[v]
           /\ visitors' = [v \in ToSet(order') |-> visitors[v]]
    BY <1>3, SweepFacts
  <2>2. \A v \in ToSet(order') : v \in ToSet(order)
    BY <2>1, OrderFacts DEF ToSet
  <2>3. visitors' \in [ToSet(order') -> [bucket : Buckets, lastSeen : Nat]]
    <3>1. \A v \in ToSet(order') : visitors'[v] \in [bucket : Buckets, lastSeen : Nat]
      BY <2>1, <2>2 DEF TypeInv
    <3>2. visitors' = [v \in ToSet(order') |-> visitors'[v]]
      BY <2>1
    <3> QED BY <3>1, <3>2
  <2>4. UNCHANGED options /\ clock' = clock /\ tick' = -1 /\ at' = at /\ bucket' = bucket
        /\ made' = made /\ header' = header /\ brackets' = brackets /\ bits' = bits
    BY <1>3 DEF Sweep, options
  <2> QED BY <2>1, <2>3, <2>4, OptionsFixed DEF TypeInv
<1>4. ASSUME NEW r \in Requests, Drawn(r) PROVE TypeInv'
  <2>1. UNCHANGED <<header, brackets, bits, options, order, visitors, made, clock, tick>>
    BY <1>4 DEF Drawn, options
  <2>2. /\ at' \in [Requests -> {"idle", "draws", "allowed", "limited"}]
        /\ bucket' \in [Requests -> Buckets]
    BY <1>0, <1>4 DEF Drawn, TypeInv
  <2> QED BY <2>1, <2>2, OptionsFixed DEF TypeInv
<1>5. CASE SweepStops \/ Stop \/ Terminated \/ UNCHANGED vars
  <2>1. UNCHANGED <<header, brackets, bits, options, order, visitors, made, clock, tick, at, bucket>>
    BY <1>5 DEF SweepStops, Stop, Terminated, vars, options
  <2> QED BY <2>1, OptionsFixed DEF TypeInv
<1>6. CASE TimePasses
  <2>1. UNCHANGED <<header, brackets, bits, options, order, visitors, made, at, bucket>>
    BY <1>6 DEF TimePasses, options
  <2>2. clock' \in Nat /\ tick' \in Int /\ tick' <= clock'
    BY <1>6 DEF TimePasses, TypeInv
  <2> QED BY <2>1, <2>2, OptionsFixed DEF TypeInv
<1> QED BY <1>1, <1>2, <1>3, <1>4, <1>5, <1>6 DEF Next, Allow

LEMMA ListStep ==
  ASSUME TypeInv, ListInv, [Next]_vars
  PROVE  ListInv'
<1>1. ASSUME NEW r \in Requests, Allow(r) PROVE ListInv'
  <2>1. PICK k \in KeysOf(r) : AllowKnown(r, k) \/ AllowNew(r, k)
    BY <1>1 DEF Allow
  <2>2. k \in AllKeys
    BY DEF AllKeys
  <2> QED BY <2>1, <2>2, KnownList, NewList
<1>2. CASE Sweep
  BY <1>2, SweepList
<1>3. CASE (\E r \in Requests : Drawn(r)) \/ SweepStops \/ Stop \/ TimePasses \/ Terminated \/ UNCHANGED vars
  <2>1. /\ UNCHANGED <<order, visitors>>
        /\ clock' \in Nat /\ clock' >= clock
    BY <1>3 DEF Drawn, SweepStops, Stop, TimePasses, Terminated, vars, TypeInv
  <2>2. SeenInv'
    BY <2>1, OrderFacts DEF ListInv, SeenInv, TypeInv
  <2>3. MapMatchesList'
    BY <2>1 DEF ListInv, MapMatchesList
  <2> QED BY <2>2, <2>3 DEF ListInv
<1> QED BY <1>1, <1>2, <1>3 DEF Next

LEMMA ListAlways == Spec => [](TypeInv /\ ListInv)
<1>1. Init => TypeInv /\ ListInv
  BY TypeInit
<1>2. TypeInv /\ ListInv /\ [Next]_vars => (TypeInv /\ ListInv)'
  BY TypeStep, ListStep
<1> QED BY <1>1, <1>2, PTL DEF Spec

\* allow and the sweep (limiter.go) keep the map and the list in step, within
\* the cap and ordered by last use, for any cap, requests and header entries.
THEOREM MapMatchesListAlways == Spec => []MapMatchesList
<1>1. ListInv => MapMatchesList
  BY DEF ListInv
<1> QED BY <1>1, ListAlways, PTL

-----------------------------------------------------------------------------
(* Who leaves, and who is left.                                            *)

LEMMA IdleStep ==
  ASSUME TypeInv, ListInv, [Next]_vars, NEW k \in DOMAIN visitors \ DOMAIN visitors'
  PROVE  \/ clock - visitors[k].lastSeen > StaleAfter
         \/ \A o \in DOMAIN visitors \cap DOMAIN visitors' :
               visitors[k].lastSeen <= visitors[o].lastSeen
<1>1. /\ Len(order) \in Nat /\ DOMAIN order = 1..Len(order) /\ DOMAIN visitors = ToSet(order)
      /\ \A l \in DOMAIN order : visitors[order[l]].lastSeen \in Nat
      /\ tick \in Int /\ clock \in Nat /\ tick <= clock
  BY OrderFacts DEF TypeInv
<1>2. PICK j \in DOMAIN order : order[j] = k
  BY <1>1, OrderFacts
<1>3. CASE Sweep
  <2>1. PICK m \in 0..Len(order) :
           /\ DOMAIN order' = 1..m
           /\ \A l \in 1..m : order'[l] = order[l]
           /\ DOMAIN visitors' = ToSet(order')
           /\ \A l \in DOMAIN order : l > m => tick - visitors[order[l]].lastSeen > StaleAfter
    BY <1>3, SweepFacts
  <2>2. j > m
    <3> SUFFICES ASSUME ~ (j > m) PROVE FALSE
      OBVIOUS
    <3>1. j \in DOMAIN order' /\ order'[j] = k
      BY <1>1, <1>2, <2>1
    <3> QED BY <2>1, <3>1 DEF ToSet
  <2>3. tick - visitors[k].lastSeen > StaleAfter
    BY <1>2, <2>1, <2>2
  <2> QED BY <1>1, <1>2, <2>3, LimitFacts
<1>4. ASSUME NEW r \in Requests, NEW n \in AllKeys, AllowNew(r, n),
             NEW o \in DOMAIN visitors \cap DOMAIN visitors'
      PROVE  visitors[k].lastSeen <= visitors[o].lastSeen
  <2>1. PICK m \in 0..Len(order) :
           /\ DOMAIN order' = 1..m + 1
           /\ order'[1] = n
           /\ \A l \in 2..m + 1 : order'[l] = order[l - 1]
           /\ n \notin ToSet(order)
           /\ DOMAIN visitors' = ToSet(order')
    BY <1>4, NewFacts
  <2>2. j > m
    <3> SUFFICES ASSUME ~ (j > m) PROVE FALSE
      OBVIOUS
    <3>1. PICK l : l = j + 1
      OBVIOUS
    <3>2. l \in DOMAIN order' /\ l \in 2..m + 1 /\ l - 1 = j
      BY <1>1, <2>1, <3>1
    <3>3. order'[l] = k
      BY <1>2, <2>1, <3>2
    <3> QED BY <2>1, <3>2, <3>3 DEF ToSet
  <2>3. PICK l \in 1..m + 1 : o = order'[l]
    BY <2>1 DEF ToSet
  <2>4. l # 1
    BY <1>1, <2>1, <2>3
  <2>5. l \in 2..m + 1 /\ l - 1 \in DOMAIN order /\ l - 1 < j
    BY <1>1, <2>1, <2>2, <2>3, <2>4
  <2>6. o = order[l - 1]
    BY <2>1, <2>3, <2>5
  <2> QED BY <1>1, <1>2, <2>5, <2>6 DEF ListInv, MapMatchesList
<1>5. ASSUME NEW r \in Requests, NEW n, AllowKnown(r, n) PROVE FALSE
  BY <1>5 DEF AllowKnown
<1>6. ASSUME NEW r \in Requests, Allow(r)
      PROVE  \A o \in DOMAIN visitors \cap DOMAIN visitors' :
                visitors[k].lastSeen <= visitors[o].lastSeen
  <2>1. PICK n \in KeysOf(r) : AllowKnown(r, n) \/ AllowNew(r, n)
    BY <1>6 DEF Allow
  <2>2. n \in AllKeys
    BY DEF AllKeys
  <2> QED BY <1>4, <1>5, <2>1, <2>2
<1>7. CASE (\E r \in Requests : Drawn(r)) \/ SweepStops \/ Stop \/ TimePasses \/ Terminated
           \/ UNCHANGED vars
  <2>1. visitors' = visitors
    BY <1>7 DEF Drawn, SweepStops, Stop, TimePasses, Terminated, vars
  <2> QED BY <2>1
<1> QED BY <1>3, <1>6, <1>7 DEF Next

\* What allow and the sweep (limiter.go) evict was idle for longer than
\* staleAfter, or was used no later than anybody that stays, for any cap and
\* any times.
THEOREM IdleGoFirstAlways == Spec => IdleGoFirst
<1>1. TypeInv /\ ListInv /\ [Next]_vars =>
        [\A k \in DOMAIN visitors \ DOMAIN visitors' :
            \/ clock - visitors[k].lastSeen > StaleAfter
            \/ \A o \in DOMAIN visitors \cap DOMAIN visitors' :
                  visitors[k].lastSeen <= visitors[o].lastSeen]_vars
  BY IdleStep
<1> QED BY <1>1, ListAlways, PTL DEF Spec, IdleGoFirst

LEMMA CompleteStep ==
  ASSUME TypeInv, ListInv, [Next]_vars, tick # -1, tick' = -1,
         NEW k \in DOMAIN visitors'
  PROVE  tick - visitors'[k].lastSeen <= StaleAfter
<1>1. /\ Len(order) \in Nat /\ DOMAIN order = 1..Len(order)
      /\ \A l \in DOMAIN order : visitors[order[l]].lastSeen \in Nat
      /\ tick \in Int /\ clock \in Nat
  BY OrderFacts DEF TypeInv
<1>2. Sweep
  <2>1. ~ (\E r \in Requests : Allow(r) \/ Drawn(r))
    BY DEF Allow, AllowKnown, AllowNew, Draws, Drawn
  <2>2. ~ (SweepStops \/ Stop \/ TimePasses \/ Terminated \/ UNCHANGED vars)
    BY <1>1 DEF SweepStops, Stop, TimePasses, Terminated, vars
  <2> QED BY <2>1, <2>2 DEF Next
<1>3. PICK m \in 0..Len(order) :
         /\ DOMAIN order' = 1..m
         /\ \A l \in 1..m : order'[l] = order[l]
         /\ DOMAIN visitors' = ToSet(order')
         /\ \A v \in ToSet(order') : visitors'[v] = visitors[v]
         /\ m # 0 => tick - visitors[order[m]].lastSeen <= StaleAfter
  BY <1>2, SweepFacts
<1>4. PICK j \in 1..m : k = order[j]
  BY <1>3 DEF ToSet
<1>5. /\ j \in DOMAIN order /\ m \in DOMAIN order /\ m # 0 /\ visitors'[k] = visitors[order[j]]
      /\ j < m \/ j = m
  BY <1>1, <1>3, <1>4
<1>6. visitors[order[j]].lastSeen >= visitors[order[m]].lastSeen
  BY <1>1, <1>5 DEF ListInv, MapMatchesList
<1> QED BY <1>1, <1>3, <1>5, <1>6, LimitFacts

\* A sweep (evictStaleLoop, limiter.go) may stop at the first client that is
\* recent enough: nobody in front of it is idle.  Whatever the cap and the
\* times, it leaves nobody that was idle for longer than staleAfter.
THEOREM SweepCompleteAlways == Spec => SweepComplete
<1>1. TypeInv /\ ListInv /\ [Next]_vars =>
        [tick # -1 /\ tick' = -1 =>
            \A k \in DOMAIN visitors' :
                tick - visitors'[k].lastSeen <= StaleAfter]_vars
  BY CompleteStep
<1> QED BY <1>1, ListAlways, PTL DEF Spec, SweepComplete

-----------------------------------------------------------------------------
(* A request's key.                                                        *)

\* The lines of a header, joined.
LEMMA JoinedOne ==
  ASSUME NEW u
  PROVE  FlattenSeq(<<u>>) = u
<1> DEFINE Steps(f) == [i \in 1..Len(<<u>>) |->
                          IF i = 1 THEN <<u>>[i] ELSE f[i - 1] \o <<u>>[i]]
           flatten == CHOOSE f : f = Steps(f)
           g == [i \in 1..1 |-> u]
<1>1. Len(<<u>>) = 1 /\ <<u>>[1] = u
  OBVIOUS
<1>2. FlattenSeq(<<u>>) = flatten[1]
  BY <1>1 DEF FlattenSeq
<1>3. g = Steps(g)
  BY <1>1
<1> HIDE DEF g
<1>4. flatten = Steps(flatten)
  BY <1>3
<1> HIDE DEF flatten
<1>5. flatten[1] = u
  BY <1>1, <1>4
<1> QED BY <1>2, <1>5

LEMMA JoinedTwo ==
  ASSUME NEW u, NEW v
  PROVE  FlattenSeq(<<u, v>>) = u \o v
<1> DEFINE Steps(f) == [i \in 1..Len(<<u, v>>) |->
                          IF i = 1 THEN <<u, v>>[i] ELSE f[i - 1] \o <<u, v>>[i]]
           flatten == CHOOSE f : f = Steps(f)
           g == [i \in 1..2 |-> IF i = 1 THEN u ELSE u \o v]
<1>1. Len(<<u, v>>) = 2 /\ <<u, v>>[1] = u /\ <<u, v>>[2] = v
  OBVIOUS
<1>2. FlattenSeq(<<u, v>>) = flatten[2]
  BY <1>1 DEF FlattenSeq
<1>3. g = Steps(g)
  <2>1. g[1] = u /\ g[2] = u \o v
    OBVIOUS
  <2>2. \A i \in 1..2 : i = 1 \/ i = 2
    OBVIOUS
  <2>3. ASSUME NEW i \in 1..2
        PROVE  g[i] = IF i = 1 THEN <<u, v>>[i] ELSE g[i - 1] \o <<u, v>>[i]
    <3> HIDE DEF g
    <3>1. CASE i = 1
      BY <1>1, <2>1, <3>1
    <3>2. CASE i = 2
      <4>1. i # 1 /\ i - 1 = 1
        BY <3>2
      <4>2. g[i] = u \o v /\ g[i - 1] = u /\ <<u, v>>[i] = v
        BY <1>1, <2>1, <3>2, <4>1, Zenon
      <4> QED BY <4>1, <4>2, Zenon
    <3> QED BY <2>2, <3>1, <3>2
  <2>4. g = [i \in 1..2 |-> g[i]]
    OBVIOUS
  <2> HIDE DEF g
  <2> QED BY <1>1, <2>3, <2>4
<1> HIDE DEF g
<1>4. flatten = Steps(flatten)
  BY <1>3
<1> HIDE DEF flatten
<1>5. flatten[1] = u
  BY <1>1, <1>4
<1>6. flatten[2] = flatten[1] \o v
  BY <1>1, <1>4
<1> QED BY <1>2, <1>5, <1>6

LEMMA LastEntry ==
  ASSUME NEW S, NEW line \in Seq(S), NEW t \in S, t # Blank
  PROVE  LastHeaderValue(line \o <<t>>) = t
<1> DEFINE entries == line \o <<t>>
           n == Len(line) + 1
           said == {i \in DOMAIN entries : entries[i] # Blank}
<1>1. Len(line) \in Nat /\ <<t>> \in Seq(S) /\ Len(<<t>>) = 1 /\ <<t>>[1] = t
  BY LenProperties
<1>2. /\ entries \in Seq(S) /\ Len(entries) = n
      /\ \A i \in 1..n : entries[i] = IF i <= Len(line) THEN line[i] ELSE <<t>>[i - Len(line)]
  BY <1>1, ConcatProperties
<1>3. DOMAIN entries = 1..n
  BY <1>2, LenProperties
<1>4. n \in 1..n /\ ~ (n <= Len(line)) /\ n - Len(line) = 1
  BY <1>1
<1>5. entries[n] = t
  BY <1>1, <1>2, <1>4
<1> HIDE DEF entries
<1>6. n \in Nat /\ said \in SUBSET (0..n) /\ n \in said
  BY <1>1, <1>3, <1>4, <1>5
<1> HIDE DEF n
<1>7. Max(said) \in said /\ Max(said) >= n
  BY <1>6, MaxFacts
<1>8. Max(said) = n
  BY <1>3, <1>6, <1>7
<1>9. LastHeaderValue(entries) = entries[Max(said)]
  BY <1>6 DEF LastHeaderValue
<1> QED BY <1>5, <1>8, <1>9 DEF entries

\* Who is to have one bucket, of address a with the prefix b, in brackets or
\* not; and its key.
Clients == [address : Addresses, whole : BOOLEAN]
OneClient(b, a, w) ==
    [address |-> IF ~ w /\ a.family = "v6" /\ b \in 1..127
                 THEN [a EXCEPT !.host = 0] ELSE a,
     whole |-> w]
KeyOf(s) == Text(s.address, IF s.whole THEN {"brackets"} ELSE {})

LEMMA ClientType ==
  ASSUME NEW b, NEW a \in Addresses, NEW w \in BOOLEAN
  PROVE  OneClient(b, a, w) \in Clients
<1>1. [a EXCEPT !.host = 0] \in Addresses
  BY DEF Addresses
<1> QED BY <1>1 DEF OneClient, Clients

\* No two senders share a key.
LEMMA KeyOfOne ==
  ASSUME NEW s \in Clients, NEW t \in Clients, KeyOf(s) = KeyOf(t)
  PROVE  s = t
<1>1. /\ KeyOf(s).address = s.address /\ KeyOf(t).address = t.address
      /\ KeyOf(s).marks = IF s.whole THEN {"brackets"} ELSE {}
      /\ KeyOf(t).marks = IF t.whole THEN {"brackets"} ELSE {}
  BY DEF KeyOf, Text
<1>2. s.address = t.address
  BY <1>1
<1>3. s.whole = t.whole
  <2>1. s.whole \in BOOLEAN /\ t.whole \in BOOLEAN
    BY DEF Clients
  <2>2. {"brackets"} # {}
    OBVIOUS
  <2> QED BY <1>1, <2>1, <2>2
<1> QED BY <1>2, <1>3 DEF Clients

\* stripPort leaves no port and no brackets on a text that has a port.
LEMMA StripFacts ==
  ASSUME NEW a, NEW f
  PROVE  /\ "port" \in f => StripPort(Text(a, f)) = Text(a, f \ {"port", "brackets"})
         /\ "port" \notin f => StripPort(Text(a, f)) = Text(a, f)
<1>1. Text(a, f).address = a /\ Text(a, f).marks = f
  BY DEF Text
<1> QED BY <1>1 DEF StripPort

\* An address that parses is rid of its zone and its mapping; an IPv6 address
\* is masked.
LEMMA ParsedKey ==
  ASSUME NEW a \in Addresses, NEW f, NEW b \in Nat,
         "port" \notin f, "brackets" \notin f,
         \/ a.family = "v4" /\ f \ {"zone", "mapped"} = {}
         \/ a.family = "v6" /\ f \ {"zone"} = {}
  PROVE  NormalizeIP(b, Text(a, f)) = KeyOf(OneClient(b, a, FALSE))
<1> DEFINE addr == Unmap(WithoutZone(Text(a, f)))
<1>1. Text(a, f).address = a /\ Text(a, f).marks = f
  BY DEF Text
<1>2. ParsesAddr(Text(a, f))
  BY <1>1 DEF ParsesAddr
<1>3. addr = Text(a, {})
  <2>1. WithoutZone(Text(a, f)) = Text(a, f \ {"zone"})
    BY <1>1 DEF WithoutZone
  <2>2. Unmap(Text(a, f \ {"zone"})) = Text(a, (f \ {"zone"}) \ {"mapped"})
    BY DEF Unmap, Text
  <2>3. (f \ {"zone"}) \ {"mapped"} = {}
    OBVIOUS
  <2> QED BY <2>1, <2>2, <2>3
<1>4. Text(a, {}).address = a /\ Text(a, {}).marks = {}
  BY DEF Text
<1>5. Is4(addr) <=> a.family = "v4"
  BY <1>3, <1>4 DEF Is4
<1> HIDE DEF addr
<1>6. NormalizeIP(b, Text(a, f)) = IF Is4(addr) THEN addr ELSE MaskedTo(IPv6Prefix(b), addr)
  BY <1>2 DEF NormalizeIP, addr
<1>7. /\ KeyOf(OneClient(b, a, FALSE)) = Text(OneClient(b, a, FALSE).address, {})
      /\ OneClient(b, a, FALSE).address =
            IF a.family = "v6" /\ b \in 1..127 THEN [a EXCEPT !.host = 0] ELSE a
  BY DEF KeyOf, OneClient
<1>8. CASE a.family = "v4"
  BY <1>3, <1>5, <1>6, <1>7, <1>8
<1>9. CASE a.family = "v6"
  <2>1. IPv6Prefix(b) < 128 <=> b \in 1..127
    BY DEF IPv6Prefix
  <2>2. [Text(a, {}) EXCEPT !.address.host = 0] = Text([a EXCEPT !.host = 0], {})
    BY DEF Text
  <2>3. NormalizeIP(b, Text(a, f)) = MaskedTo(IPv6Prefix(b), Text(a, {}))
    BY <1>3, <1>5, <1>6, <1>9
  <2> QED BY <1>7, <1>9, <2>1, <2>2, <2>3 DEF MaskedTo
<1> QED BY <1>8, <1>9

\* However an address is written, stripPort and normalizeIP make one key of it.
LEMMA WrittenKey ==
  ASSUME NEW a \in Addresses, NEW f \in Forms(a), NEW b \in Nat
  PROVE  /\ NormalizeIP(b, StripPort(Text(a, f))) = KeyOf(OneClient(b, a, FALSE))
         /\ Text(a, f) # Blank
<1>1. a.family \in {"none", "v4", "v6"}
  BY DEF Addresses, Families
<1>2. "blank" \notin f
  BY <1>1 DEF Forms
<1>3. Text(a, f) # Blank
  <2>1. Text(a, f).marks = f /\ Blank.marks = {"blank"}
    BY DEF Text, Blank
  <2> QED BY <1>2, <2>1
<1>4. CASE a.family = "none"
  <2>1. f = {}
    BY <1>4 DEF Forms
  <2>2. StripPort(Text(a, f)) = Text(a, {})
    BY <2>1, StripFacts
  <2>3. Text(a, {}).address = a
    BY DEF Text
  <2>4. NormalizeIP(b, Text(a, {})) = Text(a, {})
    BY <1>4, <2>3 DEF NormalizeIP, ParsesAddr
  <2>5. KeyOf(OneClient(b, a, FALSE)) = Text(a, {})
    BY <1>4 DEF KeyOf, OneClient
  <2> QED BY <1>3, <2>2, <2>4, <2>5
<1>5. CASE a.family = "v4"
  <2>1. f \in {{}, {"port"}, {"mapped"}, {"mapped", "brackets", "port"}}
    BY <1>5 DEF Forms
  <2>2. PICK g : /\ StripPort(Text(a, f)) = Text(a, g)
                 /\ "port" \notin g /\ "brackets" \notin g /\ g \ {"zone", "mapped"} = {}
    <3>1. CASE "port" \in f
      <4>1. /\ "port" \notin f \ {"port", "brackets"} /\ "brackets" \notin f \ {"port", "brackets"}
            /\ (f \ {"port", "brackets"}) \ {"zone", "mapped"} = {}
        BY <2>1
      <4> QED BY <3>1, <4>1, StripFacts
    <3>2. CASE "port" \notin f
      <4>1. "brackets" \notin f /\ f \ {"zone", "mapped"} = {}
        BY <2>1, <3>2
      <4> QED BY <3>2, <4>1, StripFacts
    <3> QED BY <3>1, <3>2
  <2> QED BY <1>3, <1>5, <2>2, ParsedKey
<1>6. CASE a.family = "v6"
  <2>1. f \in {{}, {"zone"}, {"brackets", "port"}, {"zone", "brackets", "port"}}
    BY <1>6 DEF Forms
  <2>2. PICK g : /\ StripPort(Text(a, f)) = Text(a, g)
                 /\ "port" \notin g /\ "brackets" \notin g /\ g \ {"zone"} = {}
    <3>1. CASE "port" \in f
      <4>1. /\ "port" \notin f \ {"port", "brackets"} /\ "brackets" \notin f \ {"port", "brackets"}
            /\ (f \ {"port", "brackets"}) \ {"zone"} = {}
        BY <2>1
      <4> QED BY <3>1, <4>1, StripFacts
    <3>2. CASE "port" \notin f
      <4>1. "brackets" \notin f /\ f \ {"zone"} = {}
        BY <2>1, <3>2
      <4> QED BY <3>2, <4>1, StripFacts
    <3> QED BY <3>1, <3>2
  <2> QED BY <1>3, <1>6, <2>2, ParsedKey
<1> QED BY <1>1, <1>4, <1>5, <1>6

\* In brackets alone, an address is its own key, whole.
LEMMA BracketKey ==
  ASSUME NEW a \in Addresses, NEW b \in Nat
  PROVE  /\ NormalizeIP(b, StripPort(Bracketed(a))) = KeyOf(OneClient(b, a, TRUE))
         /\ Bracketed(a) # Blank
<1>1. Bracketed(a) = Text(a, {"brackets"}) /\ "port" \notin {"brackets"}
  BY DEF Bracketed
<1>2. Text(a, {"brackets"}).marks = {"brackets"} /\ Blank.marks = {"blank"}
  BY DEF Text, Blank
<1>3. StripPort(Bracketed(a)) = Text(a, {"brackets"})
  BY <1>1, StripFacts
<1>4. ~ ParsesAddr(Text(a, {"brackets"}))
  BY <1>2 DEF ParsesAddr
<1>5. NormalizeIP(b, Text(a, {"brackets"})) = Text(a, {"brackets"})
  BY <1>4 DEF NormalizeIP
<1>6. KeyOf(OneClient(b, a, TRUE)) = Text(a, {"brackets"})
  BY DEF KeyOf, OneClient
<1>7. {"brackets"} # {"blank"}
  OBVIOUS
<1> QED BY <1>1, <1>2, <1>3, <1>5, <1>6, <1>7

\* The proxy's entry is the last one, whatever the sender has put before it.
LEMMA ProxiedKey ==
  ASSUME NEW b \in Nat, NEW t, t # Blank, NEW remote, NEW lines \in Proxied(t)
  PROVE  ClientIP(TRUE, b, remote, lines) = NormalizeIP(b, StripPort(t))
<1>1. PICK line \in MadeUp : lines = <<line \o <<t>>>> \/ lines = <<line, <<t>>>>
  BY DEF Proxied
<1>2. FlattenSeq(lines) = line \o <<t>>
  BY <1>1, JoinedOne, JoinedTwo
<1>3. PICK n \in 0..MaxForged : line \in [1..n -> Forged]
  BY <1>1 DEF MadeUp
<1>4. line \in Seq(Forged \cup {t})
  <2>1. n \in Nat
    BY <1>3, RateLimiterAssumption
  <2> QED BY <1>3, <2>1
<1>5. LastHeaderValue(FlattenSeq(lines)) = t
  BY <1>2, <1>4, LastEntry
<1> QED BY <1>5 DEF ClientIP

\* Whatever way it arrives, and whatever its sender put into the header, a
\* request of an address is given the key of its client.
LEMMA ArrivalKey ==
  ASSUME NEW trusted \in BOOLEAN, NEW bracketing \in BOOLEAN, NEW b \in Nat,
         NEW a \in Addresses, NEW m \in Arrivals(trusted, bracketing, a)
  PROVE  ClientIP(trusted, b, m.remote, m.lines) =
            KeyOf(OneClient(b, a, InBrackets(trusted, bracketing, a)))
<1> DEFINE texts == {Text(a, f) : f \in Forms(a)}
           client == KeyOf(OneClient(b, a, FALSE))
           Through(ts) == [remote : {Proxy}, lines : UNION {Proxied(t) : t \in ts}]
<1>1. \A t \in texts : NormalizeIP(b, StripPort(t)) = client /\ t # Blank
  BY WrittenKey
<1> HIDE DEF texts, client
<1>2. CASE ~ trusted
  <2>1. m \in [remote : texts, lines : {<<line>> : line \in MadeUp}]
    BY <1>2 DEF Arrivals, InBrackets, texts
  <2>2. m.remote \in texts
    BY <2>1
  <2>3. ClientIP(trusted, b, m.remote, m.lines) = NormalizeIP(b, StripPort(m.remote))
    BY <1>2 DEF ClientIP
  <2>4. InBrackets(trusted, bracketing, a) = FALSE
    BY <1>2 DEF InBrackets
  <2> QED BY <1>1, <2>2, <2>3, <2>4 DEF client
<1>3. ASSUME trusted, m \in [remote : texts, lines : {<<>>}]
      PROVE  ClientIP(trusted, b, m.remote, m.lines) = client
  <2>1. m.remote \in texts /\ m.lines = <<>>
    BY <1>3
  <2>2. FlattenSeq(<<>>) = <<>>
    BY DEF FlattenSeq
  <2>3. LastHeaderValue(<<>>) = Blank
    BY DEF LastHeaderValue
  <2>4. LastHeaderValue(FlattenSeq(m.lines)) = Blank
    BY <2>1, <2>2, <2>3
  <2>5. ClientIP(trusted, b, m.remote, m.lines) = NormalizeIP(b, StripPort(m.remote))
    BY <2>4 DEF ClientIP
  <2> QED BY <1>1, <2>1, <2>5
<1>4. ASSUME trusted, NEW ts, m \in Through(ts), \A t \in ts : t # Blank
      PROVE  \E t \in ts : ClientIP(trusted, b, m.remote, m.lines) = NormalizeIP(b, StripPort(t))
  <2>1. PICK t \in ts : m.lines \in Proxied(t)
    BY <1>4
  <2>2. ClientIP(TRUE, b, m.remote, m.lines) = NormalizeIP(b, StripPort(t))
    BY <1>4, <2>1, ProxiedKey
  <2>3. trusted = TRUE
    BY <1>4
  <2> QED BY <2>1, <2>2, <2>3
<1>5. CASE trusted /\ ~ InBrackets(trusted, bracketing, a)
  <2>1. m \in [remote : texts, lines : {<<>>}] \/ m \in Through(texts)
    BY <1>5 DEF Arrivals, texts
  <2>2. ASSUME m \in Through(texts)
        PROVE  ClientIP(trusted, b, m.remote, m.lines) = client
    <3> HIDE DEF Through
    <3> QED BY <1>1, <1>4, <1>5, <2>2
  <2>3. InBrackets(trusted, bracketing, a) = FALSE
    BY <1>5 DEF InBrackets
  <2> QED BY <1>3, <1>5, <2>1, <2>2, <2>3 DEF client
<1>6. CASE trusted /\ InBrackets(trusted, bracketing, a)
  <2>1. m \in Through({Bracketed(a)})
    BY <1>6 DEF Arrivals
  <2>2. ClientIP(trusted, b, m.remote, m.lines) = NormalizeIP(b, StripPort(Bracketed(a)))
    <3>1. m.lines \in Proxied(Bracketed(a))
      BY <2>1
    <3>2. ClientIP(TRUE, b, m.remote, m.lines) = NormalizeIP(b, StripPort(Bracketed(a)))
      BY <3>1, BracketKey, ProxiedKey
    <3>3. trusted = TRUE
      BY <1>6
    <3> QED BY <3>2, <3>3
  <2>3. InBrackets(trusted, bracketing, a) = TRUE
    BY <1>6 DEF InBrackets
  <2> QED BY <2>2, <2>3, BracketKey
<1> QED BY <1>2, <1>5, <1>6

LEMMA RequestKey ==
  ASSUME header \in BOOLEAN, brackets \in BOOLEAN, bits \in PrefixBits,
         NEW r \in Requests, NEW k \in KeysOf(r)
  PROVE  k = KeyOf(SenderOf(r))
<1>1. /\ Address[r] \in Range(Address) /\ Address[r] \in Addresses /\ bits \in Nat
  BY RateLimiterAssumption DEF Range
<1>2. KeysOf(r) =
        {ClientIP(header, bits, m.remote, m.lines) : m \in Arrivals(header, brackets, Address[r])}
  BY <1>1 DEF Keys, KeysOf
<1>3. PICK m \in Arrivals(header, brackets, Address[r]) :
        k = ClientIP(header, bits, m.remote, m.lines)
  BY <1>2
<1>4. SenderOf(r) = OneClient(bits, Address[r], InBrackets(header, brackets, Address[r]))
  BY DEF SenderOf, OneClient
<1> QED BY <1>1, <1>3, <1>4, ArrivalKey

-----------------------------------------------------------------------------
(* A sender's buckets.                                                     *)

\* A sender has had as many buckets made as evicted, and one more while its
\* key is in the map, where its last bucket is; a request draws on a bucket
\* of its sender.
OwnerInv ==
    \A k \in DOMAIN visitors :
        /\ KeyOf(visitors[k].bucket.owner) = k
        /\ visitors[k].bucket.number = made[visitors[k].bucket.owner]
CountInv ==
    \A s \in Senders :
        made[s] = evicted[s] + (IF KeyOf(s) \in DOMAIN visitors THEN 1 ELSE 0)
DrawInv ==
    \A r \in Requests : at[r] = "draws" =>
        bucket[r].owner = SenderOf(r) /\ bucket[r].number <= made[SenderOf(r)]
BucketInv == evicted \in [Senders -> Nat] /\ OwnerInv /\ CountInv /\ DrawInv

LEMMA SenderFacts ==
    /\ \A r \in Requests : SenderOf(r) \in Senders
    /\ \A s \in Senders : s \in Clients
    /\ \A s, t \in Senders : KeyOf(s) = KeyOf(t) => s = t
<1>1. ASSUME NEW r \in Requests PROVE SenderOf(r) \in Clients
  <2>1. /\ Address[r] \in Addresses
        /\ InBrackets(header, brackets, Address[r]) \in BOOLEAN
    BY LimitFacts DEF InBrackets
  <2>2. SenderOf(r) = OneClient(bits, Address[r], InBrackets(header, brackets, Address[r]))
    BY DEF SenderOf, OneClient
  <2> QED BY <2>1, <2>2, ClientType
<1>2. \A s \in Senders : s \in Clients
  BY <1>1 DEF Senders
<1> QED BY <1>2, KeyOfOne DEF Senders

LEMMA OwnerFacts ==
  ASSUME TypeInv
  PROVE  \A k \in DOMAIN visitors :
            /\ visitors[k].bucket \in Buckets
            /\ visitors[k].bucket.owner \in Senders
            /\ visitors[k].bucket.number \in Nat
<1>1. \A k \in DOMAIN visitors : visitors[k].bucket \in Buckets
  BY DEF TypeInv
<1> QED BY <1>1 DEF Buckets

\* Of the clients that leave, at most one had a bucket of the sender.
LEMMA ForgetFacts ==
  ASSUME TypeInv, BucketInv, NEW gone \in SUBSET DOMAIN visitors, Forget(gone)
  PROVE  /\ evicted' \in [Senders -> Nat]
         /\ \A s \in Senders : evicted'[s] = evicted[s] + (IF KeyOf(s) \in gone THEN 1 ELSE 0)
<1> DEFINE of(s) == {k \in gone : visitors[k].bucket.owner = s}
<1>1. ASSUME NEW s \in Senders
      PROVE  Cardinality(of(s)) = IF KeyOf(s) \in gone THEN 1 ELSE 0
  <2>1. \A k \in of(s) : k = KeyOf(s)
    BY DEF BucketInv, OwnerInv
  <2>2. CASE KeyOf(s) \in gone
    <3>1. visitors[KeyOf(s)].bucket.owner = s
      BY <2>2, OwnerFacts, SenderFacts DEF BucketInv, OwnerInv
    <3>2. of(s) = {KeyOf(s)}
      BY <2>1, <2>2, <3>1
    <3> QED BY <2>2, <3>2, FS_Singleton
  <2>3. CASE KeyOf(s) \notin gone
    <3>1. of(s) = {}
      BY <2>1, <2>3
    <3> QED BY <2>3, <3>1, FS_EmptySet
  <2> QED BY <2>2, <2>3
<1>2. evicted' = [s \in Senders |-> evicted[s] + Cardinality(of(s))]
  BY DEF Forget
<1> HIDE DEF of
<1>3. evicted \in [Senders -> Nat]
  BY DEF BucketInv
<1> QED BY <1>1, <1>2, <1>3

LEMMA BucketInit ==
  ASSUME Init
  PROVE  BucketInv
<1>1. DOMAIN visitors = {}
  BY DEF Init
<1>2. evicted \in [Senders -> Nat] /\ CountInv
  BY <1>1 DEF Init, CountInv
<1> QED BY <1>1, <1>2 DEF Init, BucketInv, OwnerInv, DrawInv

\* A request that takes up a bucket of its sender's.
LEMMA TakesOwn ==
  ASSUME TypeInv, BucketInv, NEW r \in Requests, NEW k, Draws(r, k),
         visitors'[k].bucket.owner = SenderOf(r),
         visitors'[k].bucket.number <= made'[SenderOf(r)],
         \A s \in Senders : made[s] <= made'[s],
         made' \in [Senders -> Nat]
  PROVE  DrawInv'
<1>1. UNCHANGED options
  BY DEF Draws
<1>2. ASSUME NEW q \in Requests, at'[q] = "draws"
      PROVE  bucket'[q].owner = SenderOf(q) /\ bucket'[q].number <= made'[SenderOf(q)]
  <2>1. CASE q = r
    <3>1. bucket'[r] = visitors'[k].bucket
      BY DEF Draws, TypeInv
    <3> QED BY <2>1, <3>1
  <2>2. CASE q # r
    <3>1. at[q] = "draws" /\ bucket'[q] = bucket[q]
      BY <1>2, <2>2 DEF Draws, TypeInv
    <3>2. bucket[q].owner = SenderOf(q) /\ bucket[q].number <= made[SenderOf(q)]
      BY <3>1 DEF BucketInv, DrawInv
    <3>3. /\ SenderOf(q) \in Senders
          /\ made[SenderOf(q)] \in Nat /\ made'[SenderOf(q)] \in Nat
      BY SenderFacts DEF TypeInv
    <3>4. bucket[q].number \in Nat
      BY DEF TypeInv, Buckets
    <3>5. made[SenderOf(q)] <= made'[SenderOf(q)]
      BY <3>3
    <3> QED BY <3>1, <3>2, <3>3, <3>4, <3>5
  <2> QED BY <2>1, <2>2
<1>3. \A q : SenderOf(q)' = SenderOf(q)
  BY <1>1, OptionsFixed
<1> QED BY <1>2, <1>3 DEF DrawInv

LEMMA KnownBucket ==
  ASSUME TypeInv, ListInv, BucketInv,
         NEW r \in Requests, NEW k \in KeysOf(r), AllowKnown(r, k)
  PROVE  BucketInv'
<1>1. k = KeyOf(SenderOf(r)) /\ SenderOf(r) \in Senders
  BY RequestKey, SenderFacts DEF TypeInv
<1>2. /\ k \in DOMAIN visitors
      /\ DOMAIN visitors' = DOMAIN visitors
      /\ \A v \in DOMAIN visitors : visitors'[v].bucket = visitors[v].bucket
      /\ made' = made /\ evicted' = evicted /\ Draws(r, k) /\ UNCHANGED options
  BY KnownFacts, OrderFacts DEF AllowKnown, Draws
<1>3. /\ visitors[k].bucket.owner = SenderOf(r)
      /\ visitors[k].bucket.number = made[SenderOf(r)]
  BY <1>1, <1>2, OwnerFacts, SenderFacts DEF BucketInv, OwnerInv
<1>4. /\ made \in [Senders -> Nat] /\ \A s \in Senders : made[s] <= made[s]
      /\ made[SenderOf(r)] <= made[SenderOf(r)]
  BY <1>1 DEF TypeInv
<1>5. DrawInv'
  BY <1>2, <1>3, <1>4, TakesOwn
<1>6. OwnerInv'
  BY <1>2 DEF BucketInv, OwnerInv
<1>7. Senders' = Senders
  BY <1>2, OptionsFixed
<1>8. CountInv'
  BY <1>2, <1>7 DEF BucketInv, CountInv
<1> QED BY <1>2, <1>5, <1>6, <1>7, <1>8 DEF BucketInv

LEMMA NewBucket ==
  ASSUME TypeInv, ListInv, BucketInv,
         NEW r \in Requests, NEW k \in KeysOf(r), AllowNew(r, k)
  PROVE  BucketInv'
<1>1. k = KeyOf(SenderOf(r)) /\ SenderOf(r) \in Senders /\ k \in AllKeys
  BY RequestKey, SenderFacts DEF TypeInv, AllKeys
<1>2. PICK m \in 0..Len(order) :
        /\ DOMAIN order' = 1..m + 1
        /\ order'[1] = k
        /\ \A j \in 2..m + 1 : order'[j] = order[j - 1]
        /\ k \notin ToSet(order)
        /\ DOMAIN visitors' = ToSet(order')
        /\ visitors'[k] = NewVisitor(r)
        /\ \A v \in ToSet(order') \ {k} : visitors'[v] = visitors[v]
        /\ Dropped(Kept) = ToSet(order) \ ToSet(order')
  BY <1>1, NewFacts
<1>3. ASSUME NEW v \in ToSet(order'), v # k PROVE v \in ToSet(order)
  <2>1. PICK j \in 1..m + 1 : v = order'[j]
    BY <1>2 DEF ToSet
  <2>2. j - 1 \in DOMAIN order /\ v = order[j - 1]
    BY <1>2, <1>3, <2>1, OrderFacts
  <2> QED BY <2>2 DEF ToSet
<1>4. k \in ToSet(order')
  <2>1. 1 \in DOMAIN order'
    BY <1>2
  <2> QED BY <1>2, <2>1 DEF ToSet
<1>5. PICK gone : gone = ToSet(order) \ ToSet(order')
  OBVIOUS
<1>6. /\ DOMAIN visitors = ToSet(order) /\ gone \in SUBSET DOMAIN visitors /\ Forget(gone)
      /\ made' = [made EXCEPT ![SenderOf(r)] = @ + 1] /\ made \in [Senders -> Nat]
      /\ Draws(r, k) /\ UNCHANGED options
  BY <1>2, <1>5, OrderFacts DEF AllowNew, Draws, TypeInv
<1>7. /\ evicted' \in [Senders -> Nat] /\ evicted \in [Senders -> Nat]
      /\ \A s \in Senders : evicted'[s] = evicted[s] + (IF KeyOf(s) \in gone THEN 1 ELSE 0)
  BY <1>6, ForgetFacts DEF BucketInv
<1>8. Senders' = Senders
  BY <1>6, OptionsFixed
<1>9. /\ visitors'[k].bucket.owner = SenderOf(r)
      /\ visitors'[k].bucket.number = made[SenderOf(r)] + 1
      /\ made[SenderOf(r)] \in Nat
  BY <1>1, <1>2, <1>6 DEF NewVisitor
<1>10. /\ made' \in [Senders -> Nat] /\ made'[SenderOf(r)] = made[SenderOf(r)] + 1
       /\ \A s \in Senders \ {SenderOf(r)} : made'[s] = made[s]
       /\ \A s \in Senders : made[s] <= made'[s]
  BY <1>1, <1>6
<1>11. DrawInv'
  <2>1. visitors'[k].bucket.number <= made'[SenderOf(r)]
    BY <1>9, <1>10
  <2> QED BY <1>6, <1>9, <1>10, <2>1, TakesOwn
<1>12. ASSUME NEW v \in DOMAIN visitors'
       PROVE  /\ KeyOf(visitors'[v].bucket.owner) = v
              /\ visitors'[v].bucket.number = made'[visitors'[v].bucket.owner]
  <2>1. CASE v = k
    BY <1>1, <1>9, <1>10, <2>1
  <2>2. CASE v # k
    <3>1. v \in DOMAIN visitors /\ visitors'[v] = visitors[v]
      BY <1>2, <1>3, <1>6, <2>2
    <3>2. /\ KeyOf(visitors[v].bucket.owner) = v
          /\ visitors[v].bucket.number = made[visitors[v].bucket.owner]
      BY <3>1 DEF BucketInv, OwnerInv
    <3>3. visitors[v].bucket.owner \in Senders \ {SenderOf(r)}
      BY <1>1, <2>2, <3>1, <3>2, OwnerFacts
    <3> QED BY <1>10, <3>1, <3>2, <3>3
  <2> QED BY <2>1, <2>2
<1>13. ASSUME NEW s \in Senders
       PROVE  made'[s] = evicted'[s] + (IF KeyOf(s) \in DOMAIN visitors' THEN 1 ELSE 0)
  <2>1. /\ made[s] = evicted[s] + (IF KeyOf(s) \in DOMAIN visitors THEN 1 ELSE 0)
        /\ made[s] \in Nat /\ evicted[s] \in Nat
    BY <1>6, <1>7 DEF BucketInv, CountInv
  <2>2. evicted'[s] = evicted[s] + (IF KeyOf(s) \in gone THEN 1 ELSE 0)
    BY <1>7
  <2>3. CASE s = SenderOf(r)
    <3>1. /\ KeyOf(s) \notin DOMAIN visitors /\ KeyOf(s) \notin gone
          /\ KeyOf(s) \in DOMAIN visitors'
      BY <1>1, <1>2, <1>4, <1>5, <1>6, <2>3
    <3> QED BY <1>10, <2>1, <2>2, <2>3, <3>1
  <2>4. CASE s # SenderOf(r)
    <3>1. KeyOf(s) # k
      BY <1>1, <2>4, SenderFacts
    <3>2. /\ KeyOf(s) \in DOMAIN visitors' => KeyOf(s) \in DOMAIN visitors
          /\ KeyOf(s) \in gone <=> KeyOf(s) \in DOMAIN visitors /\ KeyOf(s) \notin DOMAIN visitors'
      BY <1>2, <1>3, <1>5, <1>6, <3>1
    <3>3. made'[s] = made[s]
      BY <1>10, <2>4
    <3> QED BY <2>1, <2>2, <3>2, <3>3
  <2> QED BY <2>3, <2>4
<1>14. OwnerInv'
  BY <1>12 DEF OwnerInv
<1>15. CountInv'
  BY <1>8, <1>13 DEF CountInv
<1> QED BY <1>7, <1>8, <1>11, <1>14, <1>15 DEF BucketInv

LEMMA SweepBucket ==
  ASSUME TypeInv, ListInv, BucketInv, Sweep
  PROVE  BucketInv'
<1>1. PICK m \in 0..Len(order) :
        /\ DOMAIN order' = 1..m
        /\ \A j \in 1..m : order'[j] = order[j]
        /\ DOMAIN visitors' = ToSet(order')
        /\ \A v \in ToSet(order') : visitors'[v] = visitors[v]
  BY SweepFacts
<1>2. \A v \in ToSet(order') : v \in ToSet(order)
  BY <1>1, OrderFacts DEF ToSet
<1>3. PICK gone : gone = ToSet(order) \ ToSet(order')
  OBVIOUS
<1>4. /\ DOMAIN visitors = ToSet(order) /\ gone \in SUBSET DOMAIN visitors /\ Forget(gone)
      /\ made' = made /\ made \in [Senders -> Nat] /\ at' = at /\ bucket' = bucket
      /\ UNCHANGED options
  BY <1>3, OrderFacts DEF Sweep, Dropped, TypeInv
<1>5. /\ evicted' \in [Senders -> Nat] /\ evicted \in [Senders -> Nat]
      /\ \A s \in Senders : evicted'[s] = evicted[s] + (IF KeyOf(s) \in gone THEN 1 ELSE 0)
  BY <1>4, ForgetFacts DEF BucketInv
<1>6. Senders' = Senders /\ \A q : SenderOf(q)' = SenderOf(q)
  BY <1>4, OptionsFixed
<1>7. DrawInv'
  BY <1>4, <1>6 DEF BucketInv, DrawInv
<1>8. OwnerInv'
  BY <1>1, <1>2, <1>4 DEF BucketInv, OwnerInv
<1>9. ASSUME NEW s \in Senders
      PROVE  made[s] = evicted'[s] + (IF KeyOf(s) \in DOMAIN visitors' THEN 1 ELSE 0)
  <2>1. /\ made[s] = evicted[s] + (IF KeyOf(s) \in DOMAIN visitors THEN 1 ELSE 0)
        /\ made[s] \in Nat /\ evicted[s] \in Nat
    BY <1>4, <1>5 DEF BucketInv, CountInv
  <2>2. evicted'[s] = evicted[s] + (IF KeyOf(s) \in gone THEN 1 ELSE 0)
    BY <1>5
  <2>3. /\ KeyOf(s) \in DOMAIN visitors' => KeyOf(s) \in DOMAIN visitors
        /\ KeyOf(s) \in gone <=> KeyOf(s) \in DOMAIN visitors /\ KeyOf(s) \notin DOMAIN visitors'
    BY <1>1, <1>2, <1>3, <1>4
  <2> QED BY <2>1, <2>2, <2>3
<1>10. CountInv'
  BY <1>4, <1>6, <1>9 DEF CountInv
<1> QED BY <1>5, <1>6, <1>7, <1>8, <1>10 DEF BucketInv

LEMMA BucketStep ==
  ASSUME TypeInv, ListInv, BucketInv, [Next]_vars
  PROVE  BucketInv'
<1>1. ASSUME NEW r \in Requests, Allow(r) PROVE BucketInv'
  BY <1>1, KnownBucket, NewBucket DEF Allow
<1>2. CASE Sweep
  BY <1>2, SweepBucket
<1>3. ASSUME UNCHANGED <<options, visitors, made, evicted>>, DrawInv' PROVE BucketInv'
  <2>1. Senders' = Senders
    BY <1>3, OptionsFixed
  <2>2. OwnerInv'
    BY <1>3 DEF BucketInv, OwnerInv
  <2>3. CountInv'
    BY <1>3, <2>1 DEF BucketInv, CountInv
  <2> QED BY <1>3, <2>1, <2>2, <2>3 DEF BucketInv
<1>4. ASSUME NEW r \in Requests, Drawn(r) PROVE BucketInv'
  <2>1. UNCHANGED <<options, visitors, made, evicted>> /\ \A q : SenderOf(q)' = SenderOf(q)
    BY <1>4, OptionsFixed DEF Drawn
  <2>2. ASSUME NEW q \in Requests, at'[q] = "draws" PROVE at[q] = "draws" /\ bucket'[q] = bucket[q]
    BY <1>4, <2>2 DEF Drawn, TypeInv
  <2>3. DrawInv'
    BY <2>1, <2>2 DEF BucketInv, DrawInv
  <2> QED BY <1>3, <2>1, <2>3
<1>5. CASE SweepStops \/ Stop \/ TimePasses \/ Terminated \/ UNCHANGED vars
  <2>1. UNCHANGED <<options, visitors, made, evicted, at, bucket>>
    BY <1>5 DEF SweepStops, Stop, TimePasses, Terminated, vars
  <2>2. \A q : SenderOf(q)' = SenderOf(q)
    BY <2>1, OptionsFixed
  <2>3. DrawInv'
    BY <2>1, <2>2 DEF BucketInv, DrawInv
  <2> QED BY <1>3, <2>1, <2>3
<1> QED BY <1>1, <1>2, <1>4, <1>5 DEF Next

LEMMA BucketIsOne ==
  ASSUME TypeInv, BucketInv
  PROVE  OneBucketPerSender
<1>1. ASSUME NEW s \in Senders
      PROVE  /\ made[s] \in Nat /\ evicted[s] \in Nat
             /\ made[s] = evicted[s] + (IF KeyOf(s) \in DOMAIN visitors THEN 1 ELSE 0)
  BY DEF TypeInv, BucketInv, CountInv
<1>2. ASSUME NEW r \in Requests, at[r] = "draws"
      PROVE  /\ bucket[r].owner = SenderOf(r)
             /\ \/ \E k \in DOMAIN visitors : visitors[k].bucket = bucket[r]
                \/ bucket[r].number <= evicted[SenderOf(r)]
  <2>1. PICK s \in Senders : s = SenderOf(r)
    BY SenderFacts
  <2>2. /\ bucket[r].owner = s /\ bucket[r].number <= made[s]
        /\ bucket[r] \in Buckets /\ bucket[r].number \in Nat
    BY <1>2, <2>1 DEF BucketInv, DrawInv, TypeInv, Buckets
  <2>3. CASE KeyOf(s) \notin DOMAIN visitors \/ bucket[r].number # made[s]
    <3>1. bucket[r].number <= evicted[s]
      BY <1>1, <2>2, <2>3
    <3> QED BY <2>1, <2>2, <3>1
  <2>4. CASE KeyOf(s) \in DOMAIN visitors /\ bucket[r].number = made[s]
    <3>1. PICK b : b = visitors[KeyOf(s)].bucket
      OBVIOUS
    <3>2. b \in Buckets /\ b.owner = s /\ b.number = made[s]
      BY <2>4, <3>1, OwnerFacts, SenderFacts DEF BucketInv, OwnerInv
    <3>3. b = bucket[r]
      BY <2>2, <2>4, <3>2 DEF Buckets
    <3> QED BY <2>1, <2>2, <2>4, <3>1, <3>3
  <2> QED BY <2>3, <2>4
<1>3. \A s \in Senders : made[s] <= evicted[s] + 1
  BY <1>1
<1> QED BY <1>2, <1>3 DEF OneBucketPerSender

\* However a sender's address is spelled (port, zone, mapping) and whatever
\* the sender puts into the header, clientIP and allow (limiter.go) give it
\* one bucket at a time, and no other's, for any addresses, prefix, header
\* entries, cap and times.  An IPv6 address that a proxy writes in brackets
\* alone is a sender of its own, whatever the prefix.
THEOREM OneBucketPerSenderAlways == Spec => []OneBucketPerSender
<1>1. Init => BucketInv
  BY BucketInit
<1>2. TypeInv /\ ListInv /\ BucketInv /\ [Next]_vars => BucketInv'
  BY BucketStep
<1>3. TypeInv /\ BucketInv => OneBucketPerSender
  BY BucketIsOne
<1> QED BY <1>1, <1>2, <1>3, ListAlways, PTL DEF Spec
=============================================================================
