---------------------------- MODULE MCTokenFile ----------------------------
(* A small instance of TokenFile for TLC.                                  *)
EXTENDS TokenFile

CONSTANTS old, new, ctl, comment, r1, r2

Regular(lines) == [kind |-> "regular", lines |-> lines]
Other(kind) == [kind |-> kind, lines |-> <<>>]

\* A rotation from three tokens to the second of them, a file with no
\* token, and no file.
MCAuthFiles ==
    {Regular(<<old, new, ctl>>), Regular(<<comment, new>>), Regular(<<comment>>),
     Other("absent")}

\* A key, two keys at once, a key that no header can carry, and what is no
\* token file at all.
MCForwardFiles ==
    {Regular(<<old>>), Regular(<<old, new>>), Regular(<<ctl>>),
     Other("special"), Other("oversize")}

\* One request with the token that rotates out, one with it in another
\* scheme.
MCPresented ==
    [r \in Requests |-> [scheme |-> IF r = r1 THEN "bearer" ELSE "other", token |-> old]]

MCFiles == [auth |-> MCAuthFiles, forward |-> MCForwardFiles]
=============================================================================
