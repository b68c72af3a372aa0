----------------------------- MODULE MCBackoff -----------------------------
(* Small instances of Backoff for TLC: an eight-bit duration, four ticks   *)
(* to a second.                                                            *)
EXTENDS Backoff

None == [form |-> "none", n |-> 0]
Seconds(n) == [form |-> "seconds", n |-> n]
Date(n) == [form |-> "date", n |-> n]

\* Delays below, around and above the budget, and values of the past.
MCSaneHeaders ==
    {None, Seconds(-1), Seconds(0), Seconds(1), Seconds(2), Seconds(5),
     Date(-3), Date(3), Date(40)}

\* With delays whose sum with the elapsed time does not fit a duration.
MCAnyHeaders == MCSaneHeaders \cup {Seconds(31), Seconds(32), Date(500)}
=============================================================================
