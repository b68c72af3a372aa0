----------------------------- MODULE MCMetrics -----------------------------
(* A small instance of Metrics for TLC.                                    *)
EXTENDS Metrics

CONSTANTS a1, a2, a3, s1, s2

\* Two calls meet on one new series and one makes another series of that
\* counter.  The counter without labels stays at 0.
MCCounters == <<"dropped", "limited">>
MCTo ==
    [a \in Adds |->
        [counter |-> "dropped", key |-> IF a = a3 THEN "shutdown" ELSE "permanent"]]
MCAmount == [a \in Adds |-> IF a = a2 THEN 2 ELSE 1]
=============================================================================
