---------------------------- MODULE MCCollector ----------------------------
(* A small instance of Collector for TLC.                                  *)
EXTENDS Collector

CONSTANTS p1, p2, A, s1, none

\* One instance on one shard, whose queue holds one payload.
MCOwner == [p \in Payloads |-> A]
MCShardIndex == [i \in Instances |-> s1]
MCSize == [p \in Payloads |-> 1]
MCFault == [p \in Payloads |-> "none"]
=============================================================================
