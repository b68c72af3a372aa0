--------------------------- MODULE MetricsProofs ---------------------------
(***************************************************************************)
(* What the counters promise their readers, proved for any registry, any   *)
(* calls of Add and any number of scrapes.                                 *)
(*                                                                         *)
(* None of the promises is inductive.  NothingLost needs that no two       *)
(* series share a cell and that a caller's cell is still its series' one   *)
(* after the unlock.  ScrapeComplete and NeverBackwards speak of finished  *)
(* scrapes; the invariant says of an unfinished one what it has shown, what *)
(* it still has to load from the counter whose lock it holds, and that the *)
(* series it must show are there when it comes to their counter.           *)
(***************************************************************************)
EXTENDS Metrics, FiniteSetTheorems, SequenceTheorems, TLAPS

\* Whether label values k have a series in counter c.
Known(c, k) == c \in CounterSet /\ k \in DOMAIN series[c]

TypeInv ==
    /\ DOMAIN series = CounterSet
    /\ cells \in Seq(Nat)
    /\ \A c, k : Known(c, k) => series[c][k] \in DOMAIN cells
    /\ at \in [Adds -> {"idle", "got", "done"}]
    /\ DOMAIN cell = Adds
    /\ DOMAIN holder = CounterSet
    /\ visit \in [Scrapes -> Nat]
    /\ DOMAIN keys = Scrapes
    /\ DOMAIN shown = Scrapes
    /\ DOMAIN before = Scrapes
    /\ IsFiniteSet(Units(Done))

\* A cell belongs to one series, and a caller adds to the cell of its own.
CellInv ==
    /\ \A c, d, k, l : Known(c, k) /\ Known(d, l) /\ series[c][k] = series[d][l]
                          => c = d /\ k = l
    /\ \A a \in Adds : at[a] # "idle" =>
          /\ Known(To[a].counter, To[a].key)
          /\ cell[a] = series[To[a].counter][To[a].key]
    /\ \A c \in Unlabelled : Known(c, NoLabels)

\* The lines of a scrape for one series.
Lines(s, c, k) == {l \in shown[s] : l.counter = c /\ l.key = k}

\* The scrape that holds a counter's lock is at that counter.
LockInv ==
    \A c \in CounterSet : \A s \in Scrapes :
        holder[c] = s =>
            /\ visit[s] \in DOMAIN Counters /\ c = Current(s)
            /\ \A k \in keys[s] : Known(c, k) /\ Lines(s, c, k) = {}

\* What came before a scrape is over.
BeforeInv ==
    \A s \in Scrapes :
        /\ visit[s] = 0 => before[s] = {}
        /\ before[s] \subseteq Done \cup Rendered

\* What a scrape shows of a series: its value when it was loaded.
LineInv(s, l) ==
    /\ Known(l.counter, l.key)
    /\ \E i \in DOMAIN Counters :
          l.counter = Counters[i]
          /\ (i < visit[s] \/ (i = visit[s] /\ holder[l.counter] = s))
    /\ l.value \in Nat
    /\ Total(before[s] \cap Adds, l.counter, l.key) <= l.value
    /\ l.value <= cells[series[l.counter][l.key]]
    /\ \A m \in Lines(s, l.counter, l.key) : m.value = l.value

ShownInv == \A s \in Scrapes : \A l \in shown[s] : LineInv(s, l)

\* No line is below one of an earlier scrape.
MonotoneInv ==
    \A t \in Scrapes : \A s \in before[t] \cap Scrapes :
        \A l \in shown[s] : \A m \in Lines(t, l.counter, l.key) : m.value >= l.value

\* The series that a scrape must show: one of a counter without labels, one
\* that a call was done with, or an earlier scrape has shown.
Wanted(s, c, k) ==
    \/ c \in Unlabelled /\ k = NoLabels
    \/ \E a \in before[s] \cap Adds : To[a].counter = c /\ To[a].key = k
    \/ \E t \in before[s] \cap Scrapes : Lines(t, c, k) # {}

\* It has shown those of the counters it is done with, and has shown or is
\* yet to load those of the counter whose lock it holds.
CompleteInv ==
    \A s \in Scrapes : \A i \in DOMAIN Counters : \A k :
        Wanted(s, Counters[i], k) =>
            /\ i < visit[s] => Lines(s, Counters[i], k) # {}
            /\ i = visit[s] /\ holder[Counters[i]] = s =>
                  k \in keys[s] \/ Lines(s, Counters[i], k) # {}

IInv == /\ TypeInv /\ CellInv /\ NothingLost /\ LockInv /\ BeforeInv
        /\ ShownInv /\ MonotoneInv /\ CompleteInv
-----------------------------------------------------------------------------
(* Sums of additions.                                                      *)

LEMMA RegistryFacts ==
    /\ Counters \in Seq(CounterSet) /\ Len(Counters) \in Nat
    /\ DOMAIN Counters = 1 .. Len(Counters)
    /\ \A i \in DOMAIN Counters : Counters[i] \in CounterSet
    /\ \A c \in CounterSet : \E i \in DOMAIN Counters : c = Counters[i]
    /\ \A i, j \in DOMAIN Counters : Counters[i] = Counters[j] => i = j
<1>1. Counters \in Seq(CounterSet) /\ IsInjective(Counters)
  BY MetricsAssumption
<1>2. /\ \A i \in DOMAIN Counters : Counters[i] \in CounterSet
      /\ \A c \in CounterSet : \E i \in DOMAIN Counters : c = Counters[i]
  BY DEF CounterSet, ToSet
<1>3. \A i, j \in DOMAIN Counters : Counters[i] = Counters[j] => i = j
  BY <1>1 DEF IsInjective
<1> QED BY <1>1, <1>2, <1>3, LenProperties

\* The sum over some of the calls that are done is no more than over all.
LEMMA TotalFacts ==
  ASSUME NEW all, IsFiniteSet(Units(all)), NEW calls \in SUBSET all, NEW c, NEW k
  PROVE  /\ IsFiniteSet(Units(CallsTo(calls, c, k)))
         /\ Total(calls, c, k) \in Nat /\ Total(all, c, k) \in Nat
         /\ Total(calls, c, k) <= Total(all, c, k)
<1>1. /\ Units(CallsTo(calls, c, k)) \subseteq Units(CallsTo(all, c, k))
      /\ Units(CallsTo(all, c, k)) \subseteq Units(all)
  BY DEF Units, CallsTo
<1>2. IsFiniteSet(Units(CallsTo(all, c, k)))
  BY <1>1, FS_Subset
<1>3. IsFiniteSet(Units(CallsTo(calls, c, k)))
  BY <1>1, <1>2, FS_Subset
<1>4. Cardinality(Units(CallsTo(calls, c, k))) <= Cardinality(Units(CallsTo(all, c, k)))
  BY <1>1, <1>2, FS_Subset
<1> QED BY <1>2, <1>3, <1>4, FS_CardinalityType DEF Total

\* One more call adds its amount.
LEMMA UnitsOneMore ==
  ASSUME NEW calls, NEW a, a \notin calls, Amount[a] \in Nat, IsFiniteSet(Units(calls))
  PROVE  /\ IsFiniteSet(Units(calls \cup {a}))
         /\ Cardinality(Units(calls \cup {a})) = Cardinality(Units(calls)) + Amount[a]
<1> DEFINE Own == {a} \X (1..Amount[a])
<1>1. Units(calls \cup {a}) = Units(calls) \cup Own
  BY DEF Units
<1>2. Units(calls) \cap Own = {}
  BY DEF Units
<1>3. IsFiniteSet(Own) /\ Cardinality(Own) = Amount[a]
  <2>1. IsFiniteSet(1..Amount[a]) /\ Cardinality(1..Amount[a]) = Amount[a]
    BY FS_Interval
  <2>2. IsFiniteSet({a}) /\ Cardinality({a}) = 1
    BY FS_Singleton
  <2>3. /\ IsFiniteSet(Own)
        /\ Cardinality(Own) = Cardinality({a}) * Cardinality(1..Amount[a])
    BY <2>1, <2>2, FS_Product, Zenon
  <2>4. Cardinality(Own) = 1 * Amount[a]
    BY <2>1, <2>2, <2>3, Zenon
  <2> QED BY <2>3, <2>4
<1> HIDE DEF Own
<1>4. Cardinality(Units(calls) \cap Own) = 0
  BY <1>2, FS_EmptySet
<1>5. Cardinality(Units(calls)) \in Nat
  BY FS_CardinalityType
<1>6. /\ IsFiniteSet(Units(calls) \cup Own)
      /\ Cardinality(Units(calls) \cup Own) =
            Cardinality(Units(calls)) + Cardinality(Own) - Cardinality(Units(calls) \cap Own)
  BY <1>3, FS_Union, Zenon
<1>7. /\ IsFiniteSet(Units(calls \cup {a}))
      /\ Cardinality(Units(calls \cup {a})) = Cardinality(Units(calls)) + Amount[a] - 0
  BY <1>1, <1>3, <1>4, <1>6, Zenon
<1> QED BY <1>5, <1>7

LEMMA TotalOneMore ==
  ASSUME NEW calls, NEW a, a \notin calls, Amount[a] \in Nat, IsFiniteSet(Units(calls))
  PROVE  Total(calls \cup {a}, To[a].counter, To[a].key) =
            Total(calls, To[a].counter, To[a].key) + Amount[a]
<1> DEFINE own == CallsTo(calls, To[a].counter, To[a].key)
<1>1. IsFiniteSet(Units(own))
  <2>1. calls \in SUBSET calls
    OBVIOUS
  <2> QED BY <2>1, TotalFacts
<1>2. a \notin own /\ CallsTo(calls \cup {a}, To[a].counter, To[a].key) = own \cup {a}
  BY DEF CallsTo
<1> HIDE DEF own
<1>3. Cardinality(Units(own \cup {a})) = Cardinality(Units(own)) + Amount[a]
  BY <1>1, <1>2, UnitsOneMore
<1> QED BY <1>2, <1>3, Zenon DEF Total, own

-----------------------------------------------------------------------------
(* The callers.                                                            *)

\* A call finds its series or makes one with a cell of its own, and leaves
\* the other series and their cells alone.
LEMMA GetFacts ==
  ASSUME TypeInv, NEW a \in Adds, Get(a)
  PROVE  LET c == To[a].counter
             k == To[a].key
         IN /\ c \in CounterSet
            /\ DOMAIN series' = CounterSet /\ cells' \in Seq(Nat)
            /\ \A d, l : Known(d, l)' <=> Known(d, l) \/ (d = c /\ l = k)
            /\ \A d, l : Known(d, l) =>
                  /\ series'[d][l] = series[d][l]
                  /\ series[d][l] \in DOMAIN cells'
                  /\ cells'[series[d][l]] = cells[series[d][l]]
            /\ ~ Known(c, k) => /\ series'[c][k] \in DOMAIN cells'
                                /\ series'[c][k] \notin DOMAIN cells
                                /\ cells'[series'[c][k]] = 0
<1> DEFINE c == To[a].counter
           k == To[a].key
<1>1. c \in CounterSet
  BY MetricsAssumption
<1>2. CASE Known(c, k)
  <2>1. UNCHANGED <<series, cells>>
    BY <1>2 DEF Get, FindSeries, Known
  <2> QED BY <1>1, <1>2, <2>1 DEF TypeInv, Known
<1>3. CASE ~ Known(c, k)
  <2>1. /\ cells' = Append(cells, 0)
        /\ series' = [series EXCEPT ![c] = [x \in DOMAIN @ \cup {k} |->
                         IF x = k THEN Len(cells') ELSE @[x]]]
    BY <1>1, <1>3 DEF Get, FindSeries, MakeSeries, Known
  <2>2. /\ Len(cells) \in Nat /\ DOMAIN cells = 1 .. Len(cells)
        /\ cells' \in Seq(Nat) /\ Len(cells') = Len(cells) + 1
        /\ DOMAIN cells' = 1 .. Len(cells) + 1
        /\ cells'[Len(cells) + 1] = 0
        /\ \A i \in DOMAIN cells : cells'[i] = cells[i]
    BY <2>1, AppendProperties, LenProperties DEF TypeInv
  <2>3. /\ DOMAIN series' = CounterSet
        /\ DOMAIN series'[c] = DOMAIN series[c] \cup {k}
        /\ series'[c][k] = Len(cells) + 1
        /\ \A l \in DOMAIN series[c] : series'[c][l] = series[c][l]
        /\ \A d \in CounterSet \ {c} : series'[d] = series[d]
    BY <1>1, <1>3, <2>1, <2>2 DEF TypeInv, Known
  <2> HIDE DEF c, k
  <2>4. \A d, l : Known(d, l)' <=> Known(d, l) \/ (d = c /\ l = k)
    BY <1>1, <2>3 DEF Known
  <2>5. \A d, l : Known(d, l) => series'[d][l] = series[d][l]
    BY <1>1, <2>3 DEF Known
  <2>6. \A d, l : Known(d, l) => series[d][l] \in DOMAIN cells
    BY DEF TypeInv
  <2>7. DOMAIN cells \subseteq DOMAIN cells'
    BY <2>2
  <2>8. series'[c][k] \in DOMAIN cells' /\ series'[c][k] \notin DOMAIN cells
    BY <2>2, <2>3
  <2> QED BY <1>1, <2>2, <2>3, <2>4, <2>5, <2>6, <2>7, <2>8 DEF c, k
<1> QED BY <1>2, <1>3

LEMMA GetStep ==
  ASSUME TypeInv, CellInv, NothingLost, NEW a \in Adds, Get(a)
  PROVE  TypeInv' /\ CellInv' /\ NothingLost'
<1> DEFINE c == To[a].counter
           k == To[a].key
<1>1. /\ c \in CounterSet
      /\ DOMAIN series' = CounterSet /\ cells' \in Seq(Nat)
      /\ \A d, l : Known(d, l)' <=> Known(d, l) \/ (d = c /\ l = k)
      /\ \A d, l : Known(d, l) => /\ series'[d][l] = series[d][l]
                                  /\ series[d][l] \in DOMAIN cells'
                                  /\ cells'[series[d][l]] = cells[series[d][l]]
      /\ ~ Known(c, k) => /\ series'[c][k] \in DOMAIN cells'
                          /\ series'[c][k] \notin DOMAIN cells
                          /\ cells'[series'[c][k]] = 0
  BY GetFacts
<1>2. /\ at[a] = "idle" /\ at'[a] = "got" /\ cell'[a] = series'[c][k]
      /\ at' \in [Adds -> {"idle", "got", "done"}] /\ DOMAIN cell' = Adds
      /\ \A b \in Adds \ {a} : at'[b] = at[b] /\ cell'[b] = cell[b]
      /\ UNCHANGED <<holder, visit, keys, shown, sent, before>>
  BY DEF Get, TypeInv
<1>3. Done' = Done /\ a \notin Done
  BY <1>2 DEF Done
<1> HIDE DEF c, k
<1>4. TypeInv'
  <2>1. \A d, l : Known(d, l)' => series'[d][l] \in DOMAIN cells'
    BY <1>1
  <2>2. IsFiniteSet(Units(Done)')
    BY <1>3 DEF Units, TypeInv
  <2> QED BY <1>1, <1>2, <2>1, <2>2 DEF TypeInv
<1>5. CellInv'
  <2>1. \A d, l : Known(d, l) => series[d][l] \in DOMAIN cells
    BY DEF TypeInv
  <2>2. ASSUME NEW d, NEW e, NEW l, NEW m, Known(d, l)', Known(e, m)',
               series'[d][l] = series'[e][m]
        PROVE  d = e /\ l = m
    BY <1>1, <2>1, <2>2 DEF CellInv
  <2>3. \A b \in Adds \ {a} : at'[b] # "idle" =>
          /\ Known(To[b].counter, To[b].key)'
          /\ cell'[b] = series'[To[b].counter][To[b].key]
    BY <1>1, <1>2 DEF CellInv
  <2>4. Known(To[a].counter, To[a].key)' /\ cell'[a] = series'[To[a].counter][To[a].key]
    BY <1>1, <1>2 DEF c, k
  <2>5. \A d \in Unlabelled : Known(d, NoLabels)'
    BY <1>1 DEF CellInv
  <2> QED BY <2>2, <2>3, <2>4, <2>5 DEF CellInv
<1>6. NothingLost'
  <2>1. ASSUME NEW d \in CounterSet, NEW l \in DOMAIN series'[d]
        PROVE  cells'[series'[d][l]] = Total(Done, d, l)
    <3>1. Known(d, l)'
      BY <2>1 DEF Known
    <3>2. CASE Known(d, l)
      BY <1>1, <3>2 DEF NothingLost, Known
    <3>3. CASE ~ Known(d, l)
      <4>1. d = c /\ l = k /\ cells'[series'[d][l]] = 0
        BY <1>1, <3>1, <3>3
      <4>2. CallsTo(Done, d, l) = {}
        BY <3>3 DEF CallsTo, NothingLost, Known, Done, CellInv
      <4>3. Units({}) = {}
        BY DEF Units
      <4> QED BY <4>1, <4>2, <4>3, FS_EmptySet DEF Total
    <3> QED BY <3>2, <3>3
  <2>2. \A b \in Done : To[b].key \in DOMAIN series'[To[b].counter]
    BY <1>1 DEF NothingLost, Known, Done, CellInv
  <2> QED BY <1>3, <2>1, <2>2 DEF NothingLost, Total, CallsTo, Units
<1> QED BY <1>4, <1>5, <1>6
LEMMA AtomicAddFacts ==
  ASSUME TypeInv, CellInv, NEW a \in Adds, AtomicAdd(a)
  PROVE  LET i == series[To[a].counter][To[a].key] IN
         /\ Known(To[a].counter, To[a].key) /\ i \in DOMAIN cells
         /\ cells' \in Seq(Nat) /\ DOMAIN cells' = DOMAIN cells
         /\ cells'[i] = cells[i] + Amount[a] /\ Amount[a] \in Nat
         /\ \A j \in DOMAIN cells : cells[j] \in Nat /\ cells'[j] \in Nat
         /\ \A j \in DOMAIN cells \ {i} : cells'[j] = cells[j]
         /\ at[a] = "got" /\ at'[a] = "done"
         /\ at' \in [Adds -> {"idle", "got", "done"}]
         /\ \A b \in Adds \ {a} : at'[b] = at[b]
         /\ UNCHANGED <<series, cell, holder, visit, keys, shown, sent, before>>
<1> DEFINE i == series[To[a].counter][To[a].key]
<1>1. at[a] = "got" /\ Known(To[a].counter, To[a].key) /\ cell[a] = i
  BY DEF AtomicAdd, CellInv
<1>2. i \in DOMAIN cells /\ Amount[a] \in Nat
  BY <1>1, MetricsAssumption DEF TypeInv
<1>3. cells' = [cells EXCEPT ![i] = @ + Amount[a]]
  BY <1>1 DEF AtomicAdd
<1> HIDE DEF i
<1>4. cells \in Seq(Nat) /\ \A j \in DOMAIN cells : cells[j] \in Nat
  BY LenProperties, ElementOfSeq DEF TypeInv
<1>5. cells[i] + Amount[a] \in Nat
  BY <1>2, <1>4
<1>6. cells' \in Seq(Nat) /\ Len(cells') = Len(cells)
  BY <1>2, <1>3, <1>4, <1>5, LenProperties, ExceptSeq
<1>7. /\ DOMAIN cells' = DOMAIN cells
      /\ cells'[i] = cells[i] + Amount[a]
      /\ \A j \in DOMAIN cells \ {i} : cells'[j] = cells[j]
  BY <1>2, <1>3
<1>8. \A j \in DOMAIN cells : cells'[j] \in Nat
  BY <1>4, <1>5, <1>7
<1>9. /\ at'[a] = "done" /\ at' \in [Adds -> {"idle", "got", "done"}]
      /\ \A b \in Adds \ {a} : at'[b] = at[b]
      /\ UNCHANGED <<series, cell, holder, visit, keys, shown, sent, before>>
  BY DEF AtomicAdd, TypeInv
<1> QED BY <1>1, <1>2, <1>4, <1>6, <1>7, <1>8, <1>9 DEF i

LEMMA AtomicAddStep ==
  ASSUME TypeInv, CellInv, NothingLost, NEW a \in Adds, AtomicAdd(a)
  PROVE  TypeInv' /\ CellInv' /\ NothingLost'
<1> DEFINE i == series[To[a].counter][To[a].key]
<1>1. /\ Known(To[a].counter, To[a].key) /\ i \in DOMAIN cells
      /\ cells' \in Seq(Nat) /\ DOMAIN cells' = DOMAIN cells
      /\ cells'[i] = cells[i] + Amount[a] /\ Amount[a] \in Nat
      /\ \A j \in DOMAIN cells \ {i} : cells'[j] = cells[j]
      /\ at[a] = "got" /\ at'[a] = "done"
      /\ at' \in [Adds -> {"idle", "got", "done"}]
      /\ \A b \in Adds \ {a} : at'[b] = at[b]
      /\ UNCHANGED <<series, cell, holder, visit, keys, shown, sent, before>>
  BY AtomicAddFacts
<1>2. Done' = Done \cup {a} /\ a \notin Done
  BY <1>1 DEF Done
<1>3. /\ IsFiniteSet(Units(Done \cup {a})) /\ IsFiniteSet(Units(Done))
  BY <1>1, <1>2, UnitsOneMore DEF TypeInv
<1>4. \A d, l : Known(d, l)' <=> Known(d, l)
  BY <1>1 DEF Known
<1>5. TypeInv'
  <2>1. IsFiniteSet(Units(Done)')
    BY <1>2, <1>3 DEF Units
  <2>2. \A d, l : Known(d, l)' => series'[d][l] \in DOMAIN cells'
    BY <1>1, <1>4 DEF TypeInv
  <2> QED BY <1>1, <2>1, <2>2 DEF TypeInv
<1>6. CellInv'
  BY <1>1, <1>4 DEF CellInv
<1>7. NothingLost'
  <2>1. ASSUME NEW d \in CounterSet, NEW l \in DOMAIN series[d]
        PROVE  cells'[series[d][l]] = Total(Done \cup {a}, d, l)
    <3>1. Known(d, l) /\ cells[series[d][l]] = Total(Done, d, l)
          /\ series[d][l] \in DOMAIN cells
      BY <2>1 DEF Known, NothingLost, TypeInv
    <3>2. CASE d = To[a].counter /\ l = To[a].key
      <4>1. Total(Done \cup {a}, d, l) = Total(Done, d, l) + Amount[a]
        <5>1. a \notin Done /\ Amount[a] \in Nat /\ IsFiniteSet(Units(Done))
          BY <1>1, <1>2, <1>3
        <5>2. Total(Done \cup {a}, To[a].counter, To[a].key) =
                 Total(Done, To[a].counter, To[a].key) + Amount[a]
          BY <5>1, TotalOneMore
        <5> QED BY <3>2, <5>2
      <4> QED BY <1>1, <3>1, <3>2, <4>1
    <3>3. CASE ~ (d = To[a].counter /\ l = To[a].key)
      <4>1. series[d][l] # i
        BY <1>1, <3>1, <3>3 DEF CellInv
      <4>2. Total(Done \cup {a}, d, l) = Total(Done, d, l)
        <5>1. CallsTo(Done \cup {a}, d, l) = CallsTo(Done, d, l)
          BY <3>3 DEF CallsTo
        <5> QED BY <5>1 DEF Total
      <4> QED BY <1>1, <3>1, <4>1, <4>2
    <3> QED BY <3>2, <3>3
  <2>2. \A b \in Done \cup {a} : To[b].key \in DOMAIN series[To[b].counter]
    BY <1>1 DEF NothingLost, Known
  <2> HIDE DEF i
  <2> QED BY <1>1, <1>2, <2>1, <2>2 DEF NothingLost, Total, CallsTo, Units
<1> QED BY <1>5, <1>6, <1>7

\* What the scrapes have shown stays true while the series grow.
ScrapeInv == LockInv /\ BeforeInv /\ ShownInv /\ MonotoneInv /\ CompleteInv

LEMMA ScrapesUnmoved ==
  ASSUME TypeInv, ScrapeInv, UNCHANGED <<holder, visit, keys, shown, before>>,
         Done \subseteq Done',
         \A c, k : Known(c, k) => /\ Known(c, k)'
                                  /\ cells'[series'[c][k]] \in Nat
                                  /\ cells[series[c][k]] \in Nat
                                  /\ cells[series[c][k]] <= cells'[series'[c][k]]
  PROVE  ScrapeInv'
<1>1. \A s, c, k : Lines(s, c, k)' = Lines(s, c, k)
  BY DEF Lines
<1>2. Rendered' = Rendered /\ \A s : Current(s)' = Current(s)
  BY DEF Rendered, Current
<1>3. LockInv'
  BY <1>1, <1>2 DEF ScrapeInv, LockInv
<1>4. BeforeInv'
  BY <1>2 DEF ScrapeInv, BeforeInv
<1>5. ShownInv'
  <2> SUFFICES ASSUME NEW s \in Scrapes, NEW l \in shown[s] PROVE LineInv(s, l)'
    BY DEF ShownInv
  <2>1. LineInv(s, l)
    BY DEF ScrapeInv, ShownInv
  <2>2. Total(before[s] \cap Adds, l.counter, l.key)' = Total(before[s] \cap Adds, l.counter, l.key)
    BY DEF Total, Units, CallsTo
  <2>3. l.value <= cells'[series'[l.counter][l.key]]
    BY <2>1 DEF LineInv
  <2> QED BY <1>1, <2>1, <2>2, <2>3 DEF LineInv
<1>6. MonotoneInv'
  BY <1>1 DEF ScrapeInv, MonotoneInv
<1>7. CompleteInv'
  <2>1. \A s, c, k : Wanted(s, c, k)' = Wanted(s, c, k)
    BY <1>1 DEF Wanted
  <2> QED BY <1>1, <2>1 DEF ScrapeInv, CompleteInv
<1> QED BY <1>3, <1>4, <1>5, <1>6, <1>7 DEF ScrapeInv

LEMMA AddStep ==
  ASSUME TypeInv, CellInv, NothingLost, ScrapeInv, NEW a \in Adds, Add(a)
  PROVE  TypeInv' /\ CellInv' /\ NothingLost' /\ ScrapeInv'
<1>1. \A c, k : Known(c, k) => series[c][k] \in DOMAIN cells /\ cells[series[c][k]] \in Nat
  BY LenProperties, ElementOfSeq DEF TypeInv
<1>2. CASE Get(a)
  <2>1. UNCHANGED <<holder, visit, keys, shown, before>> /\ Done \subseteq Done'
    BY <1>2 DEF Get, Done, TypeInv
  <2>2. \A c, k : Known(c, k) => /\ Known(c, k)'
                                 /\ cells'[series'[c][k]] = cells[series[c][k]]
    BY <1>2, GetFacts
  <2>3. ScrapeInv'
    BY <1>1, <2>1, <2>2, ScrapesUnmoved
  <2> QED BY <1>2, <2>3, GetStep
<1>3. CASE AtomicAdd(a)
  <2>1. /\ UNCHANGED <<series, holder, visit, keys, shown, before>>
        /\ Done \subseteq Done'
    BY <1>3, AtomicAddFacts DEF Done
  <2>2. \A i \in DOMAIN cells : cells'[i] \in Nat /\ cells[i] <= cells'[i]
    BY <1>3, AtomicAddFacts
  <2>3. \A c, k : Known(c, k) => /\ Known(c, k)'
                                 /\ cells'[series'[c][k]] \in Nat
                                 /\ cells[series[c][k]] <= cells'[series'[c][k]]
    BY <1>1, <2>1, <2>2 DEF Known
  <2>4. ScrapeInv'
    BY <1>1, <2>1, <2>3, ScrapesUnmoved
  <2> QED BY <1>3, <2>4, AtomicAddStep
<1> QED BY <1>2, <1>3 DEF Add
-----------------------------------------------------------------------------
(* The scrapes.                                                            *)

\* A scrape changes no series.
LEMMA RenderFrame ==
  ASSUME TypeInv, CellInv, NothingLost, NEW s \in Scrapes, Render(s)
  PROVE  /\ TypeInv' /\ CellInv' /\ NothingLost'
         /\ UNCHANGED <<series, cells, at, cell>>
         /\ Done' = Done
         /\ \A c, k : Known(c, k)' <=> Known(c, k)
<1>1. UNCHANGED <<series, cells, at, cell>>
  BY DEF Render, StartRender, LockCounter, LoadSeries, UnlockCounter
<1>2. /\ Done' = Done
      /\ \A c, k : Known(c, k)' <=> Known(c, k)
  BY <1>1 DEF Done, Known
<1>3. /\ DOMAIN holder' = CounterSet /\ visit' \in [Scrapes -> Nat]
      /\ DOMAIN keys' = Scrapes /\ DOMAIN shown' = Scrapes /\ DOMAIN before' = Scrapes
  BY DEF Render, StartRender, LockCounter, LoadSeries, UnlockCounter, TypeInv
<1>4. TypeInv'
  BY <1>1, <1>2, <1>3 DEF TypeInv, Units
<1>5. CellInv'
  BY <1>1, <1>2 DEF CellInv
<1>6. NothingLost'
  BY <1>1, <1>2 DEF NothingLost, Total, CallsTo, Units
<1> QED BY <1>1, <1>2, <1>4, <1>5, <1>6

\* A series that must be shown is there.
LEMMA WantedKnown ==
  ASSUME TypeInv, CellInv, ScrapeInv, NEW s \in Scrapes, NEW c, NEW k, Wanted(s, c, k)
  PROVE  Known(c, k)
<1>1. CASE c \in Unlabelled /\ k = NoLabels
  BY <1>1 DEF CellInv
<1>2. CASE \E a \in before[s] \cap Adds : To[a].counter = c /\ To[a].key = k
  <2>1. PICK a \in before[s] \cap Adds : To[a].counter = c /\ To[a].key = k
    BY <1>2
  <2>2. a \in Done
    BY <2>1, MetricsAssumption DEF ScrapeInv, BeforeInv, Rendered
  <2> QED BY <2>1, <2>2 DEF CellInv, Done
<1>3. CASE \E t \in before[s] \cap Scrapes : Lines(t, c, k) # {}
  BY <1>3 DEF ScrapeInv, ShownInv, LineInv, Lines
<1> QED BY <1>1, <1>2, <1>3 DEF Wanted

\* An earlier scrape is over.
LEMMA EarlierRendered ==
  ASSUME BeforeInv, NEW s \in Scrapes, NEW t \in before[s] \cap Scrapes
  PROVE  t \in Rendered
  BY MetricsAssumption DEF BeforeInv, Done

LEMMA StartRenderStep ==
  ASSUME TypeInv, CellInv, NothingLost, ScrapeInv, NEW s \in Scrapes, StartRender(s)
  PROVE  ScrapeInv'
<1>1. /\ visit[s] = 0 /\ visit'[s] = 1 /\ before'[s] = Done \cup Rendered
      /\ \A t \in Scrapes \ {s} : visit'[t] = visit[t] /\ before'[t] = before[t]
      /\ visit \in [Scrapes -> Nat]
      /\ UNCHANGED <<series, cells, at, cell, holder, keys, shown>>
  BY DEF StartRender, TypeInv
<1>2. /\ \A t, c, k : Lines(t, c, k)' = Lines(t, c, k)
      /\ \A c, k : Known(c, k)' <=> Known(c, k)
      /\ Done' = Done
      /\ Rendered \subseteq Rendered'
  <2>1. Rendered \subseteq Rendered'
    BY <1>1, RegistryFacts DEF Rendered
  <2> QED BY <1>1, <2>1 DEF Lines, Known, Done
<1>3. 0 \notin DOMAIN Counters /\ \A i \in DOMAIN Counters : i >= 1
  BY RegistryFacts
<1>4. shown[s] = {} /\ \A c \in CounterSet : holder[c] # s
  <2>1. \A l \in shown[s] : LineInv(s, l)
    BY DEF ScrapeInv, ShownInv
  <2>2. \A i \in DOMAIN Counters : ~ (i < visit[s]) /\ i # visit[s]
    BY <1>1, <1>3, RegistryFacts
  <2>3. shown[s] = {}
    BY <2>1, <2>2 DEF LineInv
  <2> QED BY <1>1, <1>3, <2>3 DEF ScrapeInv, LockInv
<1>5. LockInv'
  BY <1>1, <1>2, <1>4 DEF ScrapeInv, LockInv, Current
<1>6. BeforeInv'
  BY <1>1, <1>2 DEF ScrapeInv, BeforeInv
<1>7. ShownInv'
  <2> SUFFICES ASSUME NEW t \in Scrapes \ {s}, NEW l \in shown[t] PROVE LineInv(t, l)'
    BY <1>1, <1>4 DEF ShownInv
  <2>1. LineInv(t, l)
    BY DEF ScrapeInv, ShownInv
  <2>2. Total(before[t] \cap Adds, l.counter, l.key)' = Total(before[t] \cap Adds, l.counter, l.key)
    BY <1>1 DEF Total, Units, CallsTo
  <2> QED BY <1>1, <1>2, <2>1, <2>2 DEF LineInv
<1>8. MonotoneInv'
  <2>1. \A c, k : Lines(s, c, k) = {}
    BY <1>4 DEF Lines
  <2> QED BY <1>1, <1>2, <2>1 DEF ScrapeInv, MonotoneInv
<1>9. CompleteInv'
  <2>1. \A t \in Scrapes \ {s} : \A c, k : Wanted(t, c, k)' <=> Wanted(t, c, k)
    BY <1>1, <1>2 DEF Wanted
  <2>2. ASSUME NEW t \in Scrapes \ {s}, NEW i \in DOMAIN Counters, NEW k,
               Wanted(t, Counters[i], k)'
        PROVE  /\ i < visit'[t] => Lines(t, Counters[i], k)' # {}
               /\ i = visit'[t] /\ holder'[Counters[i]] = t =>
                     k \in keys'[t] \/ Lines(t, Counters[i], k)' # {}
    BY <1>1, <1>2, <2>1, <2>2 DEF ScrapeInv, CompleteInv
  <2>3. ASSUME NEW i \in DOMAIN Counters
        PROVE  ~ (i < visit'[s]) /\ holder'[Counters[i]] # s
    BY <1>1, <1>3, <1>4, RegistryFacts
  <2> QED BY <2>2, <2>3 DEF CompleteInv
<1> QED BY <1>5, <1>6, <1>7, <1>8, <1>9 DEF ScrapeInv

LEMMA LockCounterStep ==
  ASSUME TypeInv, CellInv, NothingLost, ScrapeInv, NEW s \in Scrapes, LockCounter(s)
  PROVE  ScrapeInv'
<1> DEFINE c == Current(s)
<1>1. /\ visit[s] \in DOMAIN Counters /\ c = Counters[visit[s]] /\ c \in CounterSet
      /\ holder[c] = Free /\ holder'[c] = s /\ Free \notin Scrapes
      /\ \A d \in CounterSet \ {c} : holder'[d] = holder[d]
      /\ keys'[s] = DOMAIN series[c]
      /\ \A t \in Scrapes \ {s} : keys'[t] = keys[t]
      /\ UNCHANGED <<series, cells, at, cell, visit, shown, before>>
  BY RegistryFacts, MetricsAssumption DEF LockCounter, TypeInv, Current
<1>2. /\ \A t, d, k : Lines(t, d, k)' = Lines(t, d, k)
      /\ \A d, k : Known(d, k)' <=> Known(d, k)
      /\ \A t : Current(t)' = Current(t)
      /\ Done' = Done /\ Rendered' = Rendered
  BY <1>1 DEF Lines, Known, Done, Rendered, Current
<1>3. \A k : Lines(s, c, k) = {}
  <2> SUFFICES ASSUME NEW l \in shown[s], l.counter = c PROVE FALSE
    BY DEF Lines
  <2>1. PICK i \in DOMAIN Counters :
          /\ l.counter = Counters[i]
          /\ i < visit[s] \/ (i = visit[s] /\ holder[l.counter] = s)
    BY DEF ScrapeInv, ShownInv, LineInv
  <2>2. i = visit[s]
    BY <1>1, <2>1, RegistryFacts
  <2>3. holder[c] = s
    BY <2>1, <2>2, RegistryFacts
  <2> QED BY <1>1, <2>3
<1>4. \A d \in CounterSet : holder[d] = s => d = c
  BY DEF ScrapeInv, LockInv
<1> HIDE DEF c
<1>5. LockInv'
  <2> SUFFICES ASSUME NEW d \in CounterSet, NEW t \in Scrapes, holder'[d] = t
               PROVE  /\ visit[t] \in DOMAIN Counters /\ d = Current(t)
                      /\ \A k \in keys'[t] : Known(d, k) /\ Lines(t, d, k) = {}
    BY <1>1, <1>2 DEF LockInv
  <2>1. CASE d = c
    BY <1>1, <1>3, <2>1 DEF Known, c
  <2>2. CASE d # c
    BY <1>1, <1>4, <2>2 DEF ScrapeInv, LockInv
  <2> QED BY <2>1, <2>2
<1>6. BeforeInv'
  BY <1>1, <1>2 DEF ScrapeInv, BeforeInv
<1>7. ShownInv'
  <2> SUFFICES ASSUME NEW t \in Scrapes, NEW l \in shown[t] PROVE LineInv(t, l)'
    BY <1>1 DEF ShownInv
  <2>1. LineInv(t, l)
    BY DEF ScrapeInv, ShownInv
  <2>2. Total(before[t] \cap Adds, l.counter, l.key)' = Total(before[t] \cap Adds, l.counter, l.key)
    BY <1>1 DEF Total, Units, CallsTo
  <2>3. holder[l.counter] = t => holder'[l.counter] = t
    BY <1>1, <2>1 DEF LineInv, Known
  <2> QED BY <1>1, <1>2, <2>1, <2>2, <2>3 DEF LineInv
<1>8. MonotoneInv'
  BY <1>1, <1>2 DEF ScrapeInv, MonotoneInv
<1>9. CompleteInv'
  <2>1. \A t, d, k : Wanted(t, d, k)' <=> Wanted(t, d, k)
    BY <1>1, <1>2 DEF Wanted
  <2> SUFFICES ASSUME NEW t \in Scrapes, NEW i \in DOMAIN Counters, NEW k,
                      Wanted(t, Counters[i], k)
               PROVE  /\ i < visit[t] => Lines(t, Counters[i], k) # {}
                      /\ i = visit[t] /\ holder'[Counters[i]] = t =>
                            k \in keys'[t] \/ Lines(t, Counters[i], k) # {}
    BY <1>1, <1>2, <2>1 DEF CompleteInv
  <2>2. i < visit[t] => Lines(t, Counters[i], k) # {}
    BY DEF ScrapeInv, CompleteInv
  <2>3. ASSUME i = visit[t], holder'[Counters[i]] = t
        PROVE  k \in keys'[t] \/ Lines(t, Counters[i], k) # {}
    <3>1. CASE Counters[i] = c
      <4>1. t = s
        BY <1>1, <2>3, <3>1
      <4>2. Known(c, k)
        BY <3>1, WantedKnown
      <4> QED BY <1>1, <4>1, <4>2 DEF Known
    <3>2. CASE Counters[i] # c
      <4>1. holder[Counters[i]] = t /\ t # s
        BY <1>1, <2>3, <3>2, RegistryFacts
      <4> QED BY <1>1, <2>3, <4>1 DEF ScrapeInv, CompleteInv
    <3> QED BY <3>1, <3>2
  <2> QED BY <2>2, <2>3
<1> QED BY <1>5, <1>6, <1>7, <1>8, <1>9 DEF ScrapeInv
LEMMA LoadSeriesStep ==
  ASSUME TypeInv, CellInv, NothingLost, ScrapeInv, NEW s \in Scrapes, LoadSeries(s)
  PROVE  ScrapeInv'
<1>1. PICK c \in CounterSet :
        /\ visit[s] \in DOMAIN Counters /\ c = Counters[visit[s]] /\ c = Current(s)
        /\ holder[c] = s
        /\ UNCHANGED <<series, cells, at, cell, holder, visit, before>>
  BY RegistryFacts DEF LoadSeries, Current
<1>2. PICK k \in keys[s] :
        /\ shown' = [shown EXCEPT ![s] = @ \cup
              {[counter |-> c, key |-> k, value |-> cells[series[c][k]]]}]
        /\ keys' = [keys EXCEPT ![s] = @ \ {k}]
  BY <1>1 DEF LoadSeries
<1>3. PICK new :
        /\ shown'[s] = shown[s] \cup {new} /\ keys'[s] = keys[s] \ {k}
        /\ \A t \in Scrapes \ {s} : shown'[t] = shown[t] /\ keys'[t] = keys[t]
        /\ new = [counter |-> c, key |-> k, value |-> cells[series[c][k]]]
  BY <1>2 DEF TypeInv
<1>4. new.counter = c /\ new.key = k /\ new.value = cells[series[c][k]]
  BY <1>3
<1>5. Known(c, k) /\ Lines(s, c, k) = {}
  BY <1>1 DEF ScrapeInv, LockInv
<1>6. /\ \A d, x : Known(d, x)' <=> Known(d, x)
      /\ \A t : Current(t)' = Current(t)
      /\ Done' = Done /\ Rendered' = Rendered /\ s \notin Rendered
  BY <1>1, RegistryFacts DEF Known, Done, Rendered, Current
<1>7. /\ \A t \in Scrapes \ {s} : \A d, x : Lines(t, d, x)' = Lines(t, d, x)
      /\ \A d, x : ~ (d = c /\ x = k) => Lines(s, d, x)' = Lines(s, d, x)
      /\ Lines(s, c, k)' = {new}
  <2>1. \A t \in Scrapes \ {s} : \A d, x : Lines(t, d, x)' = Lines(t, d, x)
    BY <1>3 DEF Lines
  <2>2. \A d, x : ~ (d = c /\ x = k) => Lines(s, d, x)' = Lines(s, d, x)
    BY <1>3, <1>4 DEF Lines
  <2>3. Lines(s, c, k)' = {new}
    BY <1>3, <1>4, <1>5 DEF Lines
  <2> QED BY <2>1, <2>2, <2>3
<1>8. /\ cells[series[c][k]] \in Nat
      /\ Total(before[s] \cap Adds, c, k) <= cells[series[c][k]]
  <2>1. cells[series[c][k]] = Total(Done, c, k)
    BY <1>5 DEF NothingLost, Known
  <2>2. before[s] \cap Adds \subseteq Done
    BY MetricsAssumption DEF ScrapeInv, BeforeInv, Rendered
  <2>3. IsFiniteSet(Units(Done))
    BY DEF TypeInv
  <2>4. Total(before[s] \cap Adds, c, k) <= Total(Done, c, k) /\ Total(Done, c, k) \in Nat
    BY <2>2, <2>3, TotalFacts
  <2> QED BY <2>1, <2>4
<1>9. LockInv'
  <2> SUFFICES ASSUME NEW d \in CounterSet, NEW t \in Scrapes, holder[d] = t
               PROVE  /\ visit[t] \in DOMAIN Counters /\ d = Current(t)
                      /\ \A x \in keys'[t] : Known(d, x) /\ Lines(t, d, x)' = {}
    BY <1>1, <1>6 DEF LockInv
  <2>1. /\ visit[t] \in DOMAIN Counters /\ d = Current(t)
        /\ \A x \in keys[t] : Known(d, x) /\ Lines(t, d, x) = {}
    BY DEF ScrapeInv, LockInv
  <2> QED BY <1>3, <1>7, <2>1
<1>10. BeforeInv'
  BY <1>1, <1>6 DEF ScrapeInv, BeforeInv
<1>11. ShownInv'
  <2> SUFFICES ASSUME NEW t \in Scrapes, NEW l \in shown'[t] PROVE LineInv(t, l)'
    BY DEF ShownInv
  <2>1. \A d, x : Total(before[t] \cap Adds, d, x)' = Total(before[t] \cap Adds, d, x)
    BY <1>1 DEF Total, Units, CallsTo
  <2>2. CASE l \in shown[t]
    <3>1. LineInv(t, l)
      BY <2>2 DEF ScrapeInv, ShownInv
    <3>2. Lines(t, l.counter, l.key)' = Lines(t, l.counter, l.key)
      <4>1. l \in Lines(t, l.counter, l.key)
        BY <2>2 DEF Lines
      <4> QED BY <1>5, <1>7, <4>1
    <3> QED BY <1>1, <1>6, <2>1, <3>1, <3>2 DEF LineInv
  <2>3. CASE l \notin shown[t]
    <3>1. t = s /\ l = new
      BY <1>3, <2>3
    <3>2. \E i \in DOMAIN Counters :
            c = Counters[i] /\ (i < visit'[s] \/ (i = visit'[s] /\ holder'[c] = s))
      BY <1>1
    <3>3. \A m \in Lines(s, c, k)' : m.value = new.value
      BY <1>7
    <3>4. Known(c, k)' /\ new.value = cells'[series'[c][k]]
      BY <1>1, <1>4, <1>5, <1>6
    <3>5. LineInv(s, new)'
      <4>1. new.value \in Nat /\ Total(before[s] \cap Adds, c, k) <= new.value
        BY <1>4, <1>8
      <4>2. Total(before[s] \cap Adds, c, k)' <= new.value
        BY <2>1, <3>1, <4>1
      <4> QED BY <1>4, <3>2, <3>3, <3>4, <4>1, <4>2 DEF LineInv
    <3> QED BY <3>1, <3>5
  <2> QED BY <2>2, <2>3
<1>12. MonotoneInv'
  <2> SUFFICES ASSUME NEW t \in Scrapes, NEW u \in before[t] \cap Scrapes, NEW l \in shown'[u],
                      NEW m \in Lines(t, l.counter, l.key)'
               PROVE  m.value >= l.value
    BY <1>1 DEF MonotoneInv
  <2>1. u # s
    BY <1>6, EarlierRendered DEF ScrapeInv
  <2>2. l \in shown[u] /\ LineInv(u, l)
    BY <1>3, <2>1 DEF ScrapeInv, ShownInv
  <2>3. CASE t = s /\ l.counter = c /\ l.key = k
    <3>1. m = new
      BY <1>7, <2>3
    <3> QED BY <1>4, <1>8, <2>2, <2>3, <3>1 DEF LineInv
  <2>4. CASE ~ (t = s /\ l.counter = c /\ l.key = k)
    BY <1>7, <2>2, <2>4 DEF ScrapeInv, MonotoneInv
  <2> QED BY <2>3, <2>4
<1>13. CompleteInv'
  <2>1. ASSUME NEW t \in Scrapes, NEW d, NEW x
        PROVE  Wanted(t, d, x)' <=> Wanted(t, d, x)
    <3>1. \A u \in before[t] \cap Scrapes : u # s
      BY <1>6, EarlierRendered DEF ScrapeInv
    <3> QED BY <1>1, <1>7, <3>1 DEF Wanted
  <2> SUFFICES ASSUME NEW t \in Scrapes, NEW i \in DOMAIN Counters, NEW x,
                      Wanted(t, Counters[i], x)
               PROVE  /\ i < visit[t] => Lines(t, Counters[i], x)' # {}
                      /\ i = visit[t] /\ holder[Counters[i]] = t =>
                            x \in keys'[t] \/ Lines(t, Counters[i], x)' # {}
    BY <1>1, <2>1 DEF CompleteInv
  <2>2. Lines(t, Counters[i], x) # {} => Lines(t, Counters[i], x)' # {}
    BY <1>7
  <2>3. /\ i < visit[t] => Lines(t, Counters[i], x) # {}
        /\ i = visit[t] /\ holder[Counters[i]] = t =>
              x \in keys[t] \/ Lines(t, Counters[i], x) # {}
    BY DEF ScrapeInv, CompleteInv
  <2>4. ASSUME i = visit[t], x \in keys[t], x \notin keys'[t]
        PROVE  Lines(t, Counters[i], x)' # {}
    BY <1>1, <1>3, <1>7, <2>4
  <2> QED BY <2>2, <2>3, <2>4
<1> QED BY <1>9, <1>10, <1>11, <1>12, <1>13 DEF ScrapeInv

LEMMA UnlockCounterStep ==
  ASSUME TypeInv, CellInv, NothingLost, ScrapeInv, NEW s \in Scrapes, UnlockCounter(s)
  PROVE  ScrapeInv'
<1> DEFINE c == Current(s)
<1>1. /\ visit[s] \in DOMAIN Counters /\ c = Counters[visit[s]] /\ c \in CounterSet
      /\ holder[c] = s /\ holder'[c] = Free /\ Free \notin Scrapes /\ keys[s] = {}
      /\ \A d \in CounterSet \ {c} : holder'[d] = holder[d]
      /\ visit \in [Scrapes -> Nat] /\ visit'[s] = visit[s] + 1
      /\ \A t \in Scrapes \ {s} : visit'[t] = visit[t]
      /\ UNCHANGED <<series, cells, at, cell, keys, shown, before>>
  BY RegistryFacts, MetricsAssumption DEF UnlockCounter, TypeInv, Current
<1>2. /\ \A t, d, k : Lines(t, d, k)' = Lines(t, d, k)
      /\ \A d, k : Known(d, k)' <=> Known(d, k)
      /\ \A t \in Scrapes \ {s} : Current(t)' = Current(t)
      /\ Done' = Done
  BY <1>1 DEF Lines, Known, Done, Current
<1>3. Rendered \subseteq Rendered'
  BY <1>1, RegistryFacts DEF Rendered
<1>4. \A d \in CounterSet : \A t \in Scrapes :
        holder'[d] = t => holder[d] = t /\ t # s /\ d # c
  <2>1. \A d \in CounterSet : holder[d] = s => d = c
    BY DEF ScrapeInv, LockInv
  <2> HIDE DEF c
  <2> QED BY <1>1, <2>1
<1> HIDE DEF c
<1>5. LockInv'
  BY <1>1, <1>2, <1>4 DEF ScrapeInv, LockInv
<1>6. BeforeInv'
  BY <1>1, <1>2, <1>3 DEF ScrapeInv, BeforeInv
<1>7. ShownInv'
  <2> SUFFICES ASSUME NEW t \in Scrapes, NEW l \in shown[t] PROVE LineInv(t, l)'
    BY <1>1 DEF ShownInv
  <2>1. LineInv(t, l)
    BY DEF ScrapeInv, ShownInv
  <2>2. Total(before[t] \cap Adds, l.counter, l.key)' = Total(before[t] \cap Adds, l.counter, l.key)
    BY <1>1 DEF Total, Units, CallsTo
  <2>3. PICK i \in DOMAIN Counters :
          /\ l.counter = Counters[i]
          /\ i < visit[t] \/ (i = visit[t] /\ holder[l.counter] = t)
    BY <2>1 DEF LineInv
  <2>4. i < visit'[t] \/ (i = visit'[t] /\ holder'[l.counter] = t)
    <3>1. CASE t = s
      BY <1>1, <2>3, <3>1, RegistryFacts
    <3>2. CASE t # s
      BY <1>1, <2>1, <2>3, <3>2 DEF LineInv, Known
    <3> QED BY <3>1, <3>2
  <2> QED BY <1>1, <1>2, <2>1, <2>2, <2>3, <2>4 DEF LineInv
<1>8. MonotoneInv'
  BY <1>1, <1>2 DEF ScrapeInv, MonotoneInv
<1>9. CompleteInv'
  <2>1. \A t, d, k : Wanted(t, d, k)' <=> Wanted(t, d, k)
    BY <1>1, <1>2 DEF Wanted
  <2> SUFFICES ASSUME NEW t \in Scrapes, NEW i \in DOMAIN Counters, NEW k,
                      Wanted(t, Counters[i], k)
               PROVE  /\ i < visit'[t] => Lines(t, Counters[i], k) # {}
                      /\ i = visit'[t] /\ holder'[Counters[i]] = t =>
                            k \in keys[t] \/ Lines(t, Counters[i], k) # {}
    BY <1>1, <1>2, <2>1 DEF CompleteInv
  <2>2. /\ i < visit[t] => Lines(t, Counters[i], k) # {}
        /\ i = visit[t] /\ holder[Counters[i]] = t =>
              k \in keys[t] \/ Lines(t, Counters[i], k) # {}
    BY DEF ScrapeInv, CompleteInv
  <2>3. CASE t = s
    <3>1. i < visit'[t] => i < visit[t] \/ i = visit[t]
      BY <1>1, <2>3, RegistryFacts
    <3>2. holder'[Counters[i]] # t
      BY <1>4, <2>3, RegistryFacts
    <3> QED BY <1>1, <2>2, <2>3, <3>1, <3>2
  <2>4. CASE t # s
    BY <1>1, <1>4, <2>2, <2>4, RegistryFacts
  <2> QED BY <2>3, <2>4
<1> QED BY <1>5, <1>6, <1>7, <1>8, <1>9 DEF ScrapeInv

-----------------------------------------------------------------------------

LEMMA IInvInit == Init => IInv
<1> SUFFICES ASSUME Init PROVE IInv
  OBVIOUS
<1>1. Done = {} /\ Units({}) = {}
  BY DEF Init, Done, Units
<1>2. cells \in Seq(Nat) /\ DOMAIN cells = DOMAIN Counters
      /\ \A i \in DOMAIN cells : cells[i] = 0
  BY RegistryFacts, SeqDef DEF Init
<1>3. ASSUME NEW c, NEW k, Known(c, k)
      PROVE  /\ c \in Unlabelled /\ k = NoLabels
             /\ series[c][k] \in DOMAIN Counters /\ Counters[series[c][k]] = c
  <2>1. c \in CounterSet /\ series[c] = InitialSeries(c) /\ k \in DOMAIN series[c]
    BY <1>3 DEF Init, Known
  <2>2. \E i \in DOMAIN Counters : Counters[i] = c
    BY <2>1, RegistryFacts
  <2> QED BY <2>1, <2>2 DEF InitialSeries
<1>4. \A c \in Unlabelled : Known(c, NoLabels)
  BY MetricsAssumption DEF Init, Known, InitialSeries
<1>5. TypeInv
  BY <1>1, <1>2, <1>3, FS_EmptySet DEF Init, TypeInv
<1>6. CellInv
  <2>1. \A a \in Adds : at[a] = "idle"
    BY DEF Init
  <2> QED BY <1>3, <1>4, <2>1 DEF CellInv
<1>7. NothingLost
  <2>1. \A c, k : Total({}, c, k) = 0
    <3>1. \A c, k : CallsTo({}, c, k) = {}
      BY DEF CallsTo
    <3> QED BY <1>1, <3>1, FS_EmptySet DEF Total
  <2> QED BY <1>1, <1>2, <1>3, <2>1 DEF NothingLost, Known
<1>8. ScrapeInv
  <2>1. /\ \A c \in CounterSet : holder[c] = Free /\ Free \notin Scrapes
        /\ \A s \in Scrapes : /\ visit[s] = 0 /\ keys[s] = {} /\ shown[s] = {}
                              /\ before[s] = {}
        /\ \A i \in DOMAIN Counters : ~ (i < 0) /\ i # 0
    BY MetricsAssumption, RegistryFacts DEF Init
  <2>2. LockInv /\ BeforeInv /\ ShownInv /\ MonotoneInv
    BY <2>1 DEF LockInv, BeforeInv, ShownInv, MonotoneInv
  <2>3. CompleteInv
    BY <2>1 DEF CompleteInv
  <2> QED BY <2>2, <2>3 DEF ScrapeInv
<1> QED BY <1>5, <1>6, <1>7, <1>8 DEF IInv, ScrapeInv

LEMMA IInvStep == IInv /\ [Next]_vars => IInv'
<1> SUFFICES ASSUME TypeInv, CellInv, NothingLost, ScrapeInv, [Next]_vars
             PROVE  TypeInv' /\ CellInv' /\ NothingLost' /\ ScrapeInv'
  BY DEF IInv, ScrapeInv
<1>1. CASE (\E s \in Scrapes : Write(s)) \/ Terminated \/ UNCHANGED vars
  <2>1. UNCHANGED <<series, cells, at, cell, holder, visit, keys, shown, before>>
    BY <1>1 DEF Write, Terminated, vars
  <2>2. Done' = Done /\ \A c, k : Known(c, k)' <=> Known(c, k)
    BY <2>1 DEF Done, Known
  <2>3. TypeInv'
    BY <2>1, <2>2 DEF TypeInv, Units
  <2>4. CellInv'
    BY <2>1, <2>2 DEF CellInv
  <2>5. NothingLost'
    BY <2>1, <2>2 DEF NothingLost, Total, CallsTo, Units
  <2>6. \A c, k : Known(c, k) => cells[series[c][k]] \in Nat
    BY LenProperties, ElementOfSeq DEF TypeInv
  <2>7. ScrapeInv'
    BY <2>1, <2>2, <2>6, ScrapesUnmoved
  <2> QED BY <2>3, <2>4, <2>5, <2>7
<1>2. ASSUME NEW s \in Scrapes, Render(s)
      PROVE  TypeInv' /\ CellInv' /\ NothingLost' /\ ScrapeInv'
  BY <1>2, RenderFrame, StartRenderStep, LockCounterStep, LoadSeriesStep,
     UnlockCounterStep DEF Render
<1> QED BY <1>1, <1>2, AddStep DEF Next

LEMMA Invariance == Spec => []IInv
  BY IInvInit, IInvStep, PTL DEF Spec

\* No increment is lost, however many callers meet a new set of label values
\* at once and whatever scrapes run meanwhile.
THEOREM NothingLostAlways == Spec => []NothingLost
<1>1. IInv => NothingLost
  BY DEF IInv
<1> QED BY <1>1, Invariance, PTL

\* A finished scrape of any registry shows every series it must, once, with
\* a value between what was done before it began and what is done now.
THEOREM ScrapeCompleteAlways == Spec => []ScrapeComplete
<1>1. IInv => ScrapeComplete
  <2> SUFFICES ASSUME IInv, NEW s \in Rendered
               PROVE  /\ \A c \in Unlabelled : Shows(s, c, NoLabels) # {}
                      /\ \A a \in before[s] \cap Adds :
                            Shows(s, To[a].counter, To[a].key) # {}
                      /\ \A c \in CounterSet : \A k \in DOMAIN series[c] :
                         /\ Shows(s, c, k) \subseteq
                               Total(before[s] \cap Adds, c, k)..Total(Done, c, k)
                         /\ Cardinality(Shows(s, c, k)) <= 1
    BY DEF ScrapeComplete
  <2>1. /\ s \in Scrapes
        /\ \A i \in DOMAIN Counters : i < visit[s]
    BY RegistryFacts DEF Rendered, IInv, TypeInv
  <2>2. \A c, k : Shows(s, c, k) = {l.value : l \in Lines(s, c, k)}
    BY DEF Shows, Lines
  <2>3. ASSUME NEW c \in CounterSet, NEW k, Wanted(s, c, k) PROVE Shows(s, c, k) # {}
    <3>1. Lines(s, c, k) # {}
      BY <2>1, <2>3, RegistryFacts DEF IInv, CompleteInv
    <3>2. PICK l : l \in Lines(s, c, k)
      BY <3>1
    <3>3. l.value \in {m.value : m \in Lines(s, c, k)}
      BY <3>2
    <3> QED BY <2>2, <3>3
  <2>4. \A c \in Unlabelled : Shows(s, c, NoLabels) # {}
    BY <2>3, MetricsAssumption DEF Wanted
  <2>5. \A a \in before[s] \cap Adds : Shows(s, To[a].counter, To[a].key) # {}
    BY <2>3, MetricsAssumption DEF Wanted
  <2>6. ASSUME NEW c \in CounterSet, NEW k \in DOMAIN series[c]
        PROVE  /\ Shows(s, c, k) \subseteq
                     Total(before[s] \cap Adds, c, k)..Total(Done, c, k)
               /\ Cardinality(Shows(s, c, k)) <= 1
    <3>1. \A l \in Lines(s, c, k) : LineInv(s, l) /\ l.counter = c /\ l.key = k
      BY <2>1 DEF IInv, ShownInv, Lines
    <3>2. cells[series[c][k]] = Total(Done, c, k)
      BY DEF IInv, NothingLost
    <3>3. \A l \in Lines(s, c, k) :
            /\ l.value \in Nat
            /\ Total(before[s] \cap Adds, c, k) <= l.value
            /\ l.value <= Total(Done, c, k)
      BY <3>1, <3>2 DEF LineInv
    <3>4. Total(before[s] \cap Adds, c, k) \in Nat /\ Total(Done, c, k) \in Nat
      <4>1. before[s] \cap Adds \in SUBSET Done
        BY <2>1, MetricsAssumption DEF IInv, BeforeInv, Rendered
      <4>2. IsFiniteSet(Units(Done))
        BY DEF IInv, TypeInv
      <4> QED BY <4>1, <4>2, TotalFacts
    <3>5. Shows(s, c, k) \subseteq Total(before[s] \cap Adds, c, k)..Total(Done, c, k)
      <4> SUFFICES ASSUME NEW v \in Shows(s, c, k)
                   PROVE  v \in Total(before[s] \cap Adds, c, k)..Total(Done, c, k)
        OBVIOUS
      <4>1. PICK l \in Lines(s, c, k) : v = l.value
        BY <2>2
      <4> QED BY <3>3, <3>4, <4>1
    <3>6. \A v, w \in Shows(s, c, k) : v = w
      BY <2>2, <3>1 DEF LineInv
    <3>7. CASE Shows(s, c, k) = {}
      BY <3>5, <3>7, FS_EmptySet
    <3>8. CASE Shows(s, c, k) # {}
      <4>1. PICK v : Shows(s, c, k) = {v}
        BY <3>6, <3>8
      <4>2. Cardinality({v}) = 1
        BY FS_Singleton
      <4> QED BY <3>5, <4>1, <4>2
    <3> QED BY <3>7, <3>8
  <2> QED BY <2>4, <2>5, <2>6
<1> QED BY <1>1, Invariance, PTL

\* Between any two scrapes, one after the other, no series goes down or
\* vanishes.
THEOREM NeverBackwardsAlways == Spec => []NeverBackwards
<1>1. IInv => NeverBackwards
  <2> SUFFICES ASSUME IInv, NEW t \in Rendered, NEW s \in before[t] \cap Scrapes,
                      NEW l \in shown[s]
               PROVE  \E m \in shown[t] :
                         m.counter = l.counter /\ m.key = l.key /\ m.value >= l.value
    BY DEF NeverBackwards
  <2>1. /\ t \in Scrapes
        /\ \A i \in DOMAIN Counters : i < visit[t]
    BY RegistryFacts DEF Rendered, IInv, TypeInv
  <2>2. Wanted(t, l.counter, l.key)
    BY DEF Wanted, Lines
  <2>3. l.counter \in CounterSet
    BY DEF IInv, ShownInv, LineInv, Known
  <2>4. PICK m : m \in Lines(t, l.counter, l.key)
    BY <2>1, <2>2, <2>3, RegistryFacts DEF IInv, CompleteInv
  <2> QED BY <2>1, <2>4 DEF IInv, MonotoneInv, Lines
<1> QED BY <1>1, Invariance, PTL
=============================================================================
