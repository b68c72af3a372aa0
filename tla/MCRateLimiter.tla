--------------------------- MODULE MCRateLimiter ---------------------------
(* A small instance of RateLimiter for TLC.                                *)
EXTENDS RateLimiter

CONSTANTS r1, r2, r3, r4

\* One IPv4 address sends twice; two IPv6 addresses of one network.
V4 == [family |-> "v4", net |-> 1, host |-> 1]
V6(h) == [family |-> "v6", net |-> 1, host |-> h]
MCAddress ==
    [r \in Requests |-> IF r = r2 THEN V6(1) ELSE IF r = r3 THEN V6(2) ELSE V4]

\* The sender of another request, or nothing between two commas.
MCForged == {Text(V4, {}), Blank}
MCProxy == Text([family |-> "v4", net |-> 2, host |-> 2], {"port"})
=============================================================================
