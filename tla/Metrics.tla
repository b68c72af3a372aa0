------------------------------ MODULE Metrics ------------------------------
(***************************************************************************)
(* metrics/metrics.go: counters split by label values, incremented from    *)
(* every handler, worker and watcher while GET /metrics renders them.      *)
(*                                                                         *)
(* Add finds or makes its series under the counter's lock and adds to it   *)
(* atomically after the unlock.  A scrape takes the counters one by one    *)
(* and loads every series of one under that counter's lock, so additions   *)
(* go on between two of its loads.  It writes to its client when it holds  *)
(* no lock any more.  A cell is an *atomic.Int64; all counters are made    *)
(* before main starts.                                                     *)
(***************************************************************************)
EXTENDS Naturals, Sequences, SequencesExt, FiniteSets

CONSTANTS
    Counters,    \* the registry, sorted by name
    Unlabelled,  \* the counters with no labels
    Adds,        \* the calls of Add
    To,          \* the counter and label values of each call
    Amount,      \* n of each call
    Scrapes,     \* the requests to GET /metrics
    Free         \* no scrape

\* The label values of a counter without labels.
NoLabels == "no labels"
CounterSet == ToSet(Counters)

ASSUME MetricsAssumption ==
    /\ Counters \in Seq(CounterSet) /\ IsInjective(Counters)
    /\ Unlabelled \subseteq CounterSet
    /\ \A a \in Adds : /\ To[a].counter \in CounterSet
                       /\ To[a].counter \in Unlabelled <=> To[a].key = NoLabels
    /\ Amount \in [Adds -> Nat]
    /\ Adds \cap Scrapes = {} /\ Free \notin Scrapes

VARIABLES
    series,  \* Counter.series: from label values to cells
    cells,   \* the value of each cell
    at,      \* where each call of Add stands
    cell,    \* the cell get returned to it
    holder,  \* the scrape that holds a counter's lock
    visit,   \* the counter each scrape is at; 0 before the first
    keys,    \* the label values a scrape has yet to load
    shown,   \* what each scrape has rendered
    sent,    \* the scrapes whose client has the answer
    before   \* history: the calls and scrapes complete when a scrape began

vars == <<series, cells, at, cell, holder, visit, keys, shown, sent, before>>

\* Mutant: no series for a counter without labels.
InitialSeriesNone(c) == << >>

\* newCounter makes the one series of a counter without labels.
InitialSeries(c) ==
    [k \in IF c \in Unlabelled THEN {NoLabels} ELSE {} |->
        CHOOSE i \in DOMAIN Counters : Counters[i] = c]

Init ==
    /\ series = [c \in CounterSet |-> InitialSeries(c)]
    /\ cells = [i \in DOMAIN Counters |-> 0]
    /\ at = [a \in Adds |-> "idle"]
    /\ cell = [a \in Adds |-> 0]
    /\ holder = [c \in CounterSet |-> Free]
    /\ visit = [s \in Scrapes |-> 0]
    /\ keys = [s \in Scrapes |-> {}]
    /\ shown = [s \in Scrapes |-> {}]
    /\ sent = {}
    /\ before = [s \in Scrapes |-> {}]

-----------------------------------------------------------------------------
(* Add.                                                                    *)

MakeSeries(c, k) ==
    /\ cells' = Append(cells, 0)
    /\ series' = [series EXCEPT ![c] = [x \in DOMAIN @ \cup {k} |->
                      IF x = k THEN Len(cells') ELSE @[x]]]

\* Mutant: the series is made although another caller made it.
FindSeriesAnew(c, k) == MakeSeries(c, k)

FindSeries(c, k) ==
    IF k \in DOMAIN series[c] THEN UNCHANGED <<series, cells>> ELSE MakeSeries(c, k)

\* get, under the lock.
Get(a) ==
    LET c == To[a].counter IN
    /\ at[a] = "idle"
    /\ holder[c] = Free
    /\ FindSeries(c, To[a].key)
    /\ cell' = [cell EXCEPT ![a] = series'[c][To[a].key]]
    /\ at' = [at EXCEPT ![a] = "got"]
    /\ UNCHANGED <<holder, visit, keys, shown, sent, before>>

\* atomic.Int64.Add, after the unlock.
AtomicAdd(a) ==
    /\ at[a] = "got"
    /\ cells' = [cells EXCEPT ![cell[a]] = @ + Amount[a]]
    /\ at' = [at EXCEPT ![a] = "done"]
    /\ UNCHANGED <<series, cell, holder, visit, keys, shown, sent, before>>

Add(a) == Get(a) \/ AtomicAdd(a)

-----------------------------------------------------------------------------
(* Handler and Render.                                                     *)

Done == {a \in Adds : at[a] = "done"}
Rendered == {s \in Scrapes : visit[s] > Len(Counters)}
Current(s) == Counters[visit[s]]

StartRender(s) ==
    /\ visit[s] = 0
    /\ visit' = [visit EXCEPT ![s] = 1]
    /\ before' = [before EXCEPT ![s] = Done \cup Rendered]
    /\ UNCHANGED <<series, cells, at, cell, holder, keys, shown, sent>>

\* render takes the counter's lock and collects its keys.
LockCounter(s) ==
    /\ visit[s] \in DOMAIN Counters
    /\ holder[Current(s)] = Free
    /\ holder' = [holder EXCEPT ![Current(s)] = s]
    /\ keys' = [keys EXCEPT ![s] = DOMAIN series[Current(s)]]
    /\ UNCHANGED <<series, cells, at, cell, visit, shown, sent, before>>

\* Mutant: a scrape takes what it shows out of the series.
LoadSeriesSwap(s) ==
    /\ visit[s] \in DOMAIN Counters
    /\ holder[Current(s)] = s
    /\ \E k \in keys[s] :
        LET i == series[Current(s)][k] IN
        /\ shown' = [shown EXCEPT ![s] = @ \cup
              {[counter |-> Current(s), key |-> k, value |-> cells[i]]}]
        /\ cells' = [cells EXCEPT ![i] = 0]
        /\ keys' = [keys EXCEPT ![s] = @ \ {k}]
    /\ UNCHANGED <<series, at, cell, holder, visit, sent, before>>

LoadSeries(s) ==
    /\ visit[s] \in DOMAIN Counters
    /\ holder[Current(s)] = s
    /\ \E k \in keys[s] :
        /\ shown' = [shown EXCEPT ![s] = @ \cup
              {[counter |-> Current(s), key |-> k, value |-> cells[series[Current(s)][k]]]}]
        /\ keys' = [keys EXCEPT ![s] = @ \ {k}]
    /\ UNCHANGED <<series, cells, at, cell, holder, visit, sent, before>>

\* Mutant: the Unlock is missing; the lock stays with the scrape.
UnlockCounterLate(s) ==
    /\ visit[s] \in DOMAIN Counters
    /\ holder[Current(s)] = s /\ keys[s] = {}
    /\ UNCHANGED vars

UnlockCounter(s) ==
    /\ visit[s] \in DOMAIN Counters
    /\ holder[Current(s)] = s /\ keys[s] = {}
    /\ holder' = [holder EXCEPT ![Current(s)] = Free]
    /\ visit' = [visit EXCEPT ![s] = @ + 1]
    /\ UNCHANGED <<series, cells, at, cell, keys, shown, sent, before>>

Render(s) == StartRender(s) \/ LockCounter(s) \/ LoadSeries(s) \/ UnlockCounter(s)

\* w.Write returns: the client has read the answer.
Write(s) ==
    /\ s \in Rendered \ sent
    /\ sent' = sent \cup {s}
    /\ UNCHANGED <<series, cells, at, cell, holder, visit, keys, shown, before>>

Terminated == Done = Adds /\ sent = Scrapes /\ UNCHANGED vars

Next ==
    \/ \E a \in Adds : Add(a)
    \/ \E s \in Scrapes : Render(s) \/ Write(s)
    \/ Terminated

\* Goroutines run.  A client may leave its answer unread for ever.
Spec ==
    /\ Init /\ [][Next]_vars
    /\ \A a \in Adds : WF_vars(Add(a))
    /\ \A s \in Scrapes : WF_vars(Render(s))

-----------------------------------------------------------------------------
(* Properties.                                                             *)

\* The calls among some that add to one series, the units they add, each
\* told from the others, and the sum of their additions.
CallsTo(calls, c, k) == {a \in calls : To[a].counter = c /\ To[a].key = k}
Units(calls) == UNION {{a} \X (1..Amount[a]) : a \in calls}
Total(calls, c, k) == Cardinality(Units(CallsTo(calls, c, k)))

\* No increment is lost: every series holds exactly the calls that are
\* done, also when two callers meet a new set of label values at once.
NothingLost ==
    /\ \A c \in CounterSet : \A k \in DOMAIN series[c] :
          cells[series[c][k]] = Total(Done, c, k)
    /\ \A a \in Done : To[a].key \in DOMAIN series[To[a].counter]

\* The value a scrape shows for a series, absent ones as the set of none.
Shows(s, c, k) == {l.value : l \in {m \in shown[s] : m.counter = c /\ m.key = k}}

\* A finished scrape shows a series once, with a value that counts all
\* the calls done before it began and none that is not done now; a counter
\* without labels is there "at 0 from creation, so an increase() alert sees
\* its first event" (NewCounter).
ScrapeComplete ==
    \A s \in Rendered :
     /\ \A c \in Unlabelled : Shows(s, c, NoLabels) # {}
     /\ \A a \in before[s] \cap Adds : Shows(s, To[a].counter, To[a].key) # {}
     /\ \A c \in CounterSet : \A k \in DOMAIN series[c] :
        /\ Shows(s, c, k) \subseteq Total(before[s] \cap Adds, c, k)..Total(Done, c, k)
        /\ Cardinality(Shows(s, c, k)) <= 1

\* From one scrape to a later one no series goes down or vanishes, which is
\* what "monotonically increasing" promises the reader of the counters.
NeverBackwards ==
    \A t \in Rendered : \A s \in before[t] \cap Scrapes : \A l \in shown[s] :
        \E m \in shown[t] :
            m.counter = l.counter /\ m.key = l.key /\ m.value >= l.value

\* Every call of Add and every rendering ends, whoever leaves an answer
\* unread: a slow reader of /metrics holds up no request.
NobodyWaitsForReaders == <>[](Done = Adds /\ Rendered = Scrapes)
=============================================================================
