------------------------------ MODULE Service ------------------------------
(***************************************************************************)
(* The collector from its first line to a payload on its way to a shard:   *)
(* main resolves the settings and wires the processors with them           *)
(* (Startup), and the payloads of the agents go through what was wired     *)
(* (Processors).                                                           *)
(***************************************************************************)
EXTENDS Startup, Processors

vars == <<startupVars, processorVars>>

Init == StartupInit /\ ProcessorsInit

Start == stage = "none" /\ Startup /\ UNCHANGED processorVars

Send ==
    /\ stage = "none" /\ step = "serving" /\ probe = 9
    /\ \E m \in Decoded : Receive(m)
    /\ UNCHANGED startupVars

Handle == Process /\ UNCHANGED startupVars

Ended ==
    /\ step \in {"serving", "exited"}
    /\ stage \in {"none", "rejected", "sink"}
    /\ UNCHANGED vars

Next == Start \/ Send \/ Handle \/ Ended

Spec == Init /\ [][Next]_vars
=============================================================================
