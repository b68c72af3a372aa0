------------------------------ MODULE MCIngest ------------------------------
(* Small instances of Ingest for TLC.                                      *)
EXTENDS Ingest

CONSTANTS r1, r2, r3, r4

\* Two good requests and two that fail before and after the decode slot.
MCFault ==
    [r \in Requests |-> IF r = r3 THEN "invalid"
                        ELSE IF r = r4 THEN "too_large" ELSE "none"]
=============================================================================
