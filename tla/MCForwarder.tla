---------------------------- MODULE MCForwarder ----------------------------
(* Small instances of Forwarder for TLC.                                   *)
EXTENDS Forwarder

CONSTANTS a1, a2, a3, b1, A, B, s1, s2, none

\* Two or three payloads of instance A and one of instance B.
MCPayloads3 == {a1, a2, b1}
MCPayloads4 == {a1, a2, a3, b1}
MCInstances == {A, B}
MCOwner == [p \in Payloads |-> IF p = b1 THEN B ELSE A]

\* Both instances on one shard, or a shard each.
MCOneShard == [i \in Instances |-> s1]
MCTwoShards == [i \in Instances |-> IF i = A THEN s1 ELSE s2]

\* Any two payloads fit the byte budget together and all three do not; or
\* the payload of B alone is larger than the budget.
MCSizesShared == [p \in Payloads |-> IF p = a1 THEN 2 ELSE 1]
MCSizesLarge == [p \in Payloads |-> IF p = a1 THEN 2 ELSE IF p = b1 THEN 4 ELSE 1]
=============================================================================
