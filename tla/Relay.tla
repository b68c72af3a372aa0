------------------------------- MODULE Relay -------------------------------
(***************************************************************************)
(* What a forwarding sink promises its callers, without queues, workers,   *)
(* retries or locks.  Payloads travel in lanes.  A taken payload joins its *)
(* lane; payloads leave a lane in the order they were taken, each with one *)
(* outcome, delivered or dropped for a reason.  Once the relay is closed   *)
(* it takes nothing more, and it stops only with every lane empty.         *)
(***************************************************************************)
EXTENDS Naturals, Sequences

CONSTANTS Payloads, Lanes, Lane

VARIABLES taken, left, outcome, phase

vars == <<taken, left, outcome, phase>>

\* Why a payload may be dropped, before and after the relay is closed.
OpenOutcomes   == {"delivered", "permanent", "retry_exhausted"}
ClosedOutcomes == OpenOutcomes \cup {"shutdown_deadline",
                                     "shutdown_attempt_failed"}

Init ==
    /\ taken = [l \in Lanes |-> <<>>]
    /\ left = [l \in Lanes |-> <<>>]
    /\ outcome = [p \in Payloads |-> "none"]
    /\ phase = "open"

\* A payload is taken at most once, and only while the relay is open.
Take(p) ==
    /\ phase = "open"
    /\ outcome[p] = "none"
    /\ \A i \in DOMAIN taken[Lane[p]] : taken[Lane[p]][i] # p
    /\ taken' = [taken EXCEPT ![Lane[p]] = Append(@, p)]
    /\ UNCHANGED <<left, outcome, phase>>

\* A payload that cannot be relayed at all is counted and forgotten.
Discard(p) ==
    /\ outcome[p] = "none"
    /\ \A i \in DOMAIN taken[Lane[p]] : taken[Lane[p]][i] # p
    /\ outcome' = [outcome EXCEPT ![p] = "marshal"]
    /\ UNCHANGED <<taken, left, phase>>

\* The oldest payload of lane l leaves it with its outcome.
Leave(l) ==
    /\ phase # "stopped"
    /\ Len(left[l]) < Len(taken[l])
    /\ LET p == taken[l][Len(left[l]) + 1] IN
          /\ left' = [left EXCEPT ![l] = Append(@, p)]
          /\ outcome[p] = "none"
          /\ \E o \in IF phase = "open" THEN OpenOutcomes ELSE ClosedOutcomes :
                outcome' = [outcome EXCEPT ![p] = o]
    /\ UNCHANGED <<taken, phase>>

Close ==
    /\ phase = "open"
    /\ phase' = "closed"
    /\ UNCHANGED <<taken, left, outcome>>

Stop ==
    /\ phase = "closed"
    /\ left = taken
    /\ phase' = "stopped"
    /\ UNCHANGED <<taken, left, outcome>>

Next ==
    \/ \E p \in Payloads : Take(p) \/ Discard(p)
    \/ \E l \in Lanes : Leave(l)
    \/ Close
    \/ Stop

Safety == Init /\ [][Next]_vars

\* Every lane keeps moving, and a closed relay stops.
Spec == Safety /\ (\A l \in Lanes : WF_vars(Leave(l))) /\ WF_vars(Stop)
=============================================================================
