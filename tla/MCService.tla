----------------------------- MODULE MCService -----------------------------
(* A small instance of Service for TLC: texts of every class the code      *)
(* tells apart, parts of every kind at a condition and a case label, and a *)
(* message behind a field of every shape.                                  *)
EXTENDS Service

MCMessages == [payload |-> "top", resource |-> "singular",
               probe |-> "list", table |-> "map"]

\* A number, one the kernel picks, a service and no service.
MCLookupPort ==
    [p \in Ports \cup {"4319"} |->
        CASE p = "" -> 0 [] p = "http" -> 80 [] p = "4319" -> 4319 [] OTHER -> Failed]

MCEnvTexts == {t \in Text : t.core # "b"}

MCResource ==
    [present : BOOLEAN, ns : AgentText, name : {t \in AgentText : t.core # "b"},
     id : {"", "i"}, run : {"", "r"}, env : {t \in AgentText : t.core # ".."}]

A == [core |-> "a", padded |-> FALSE]
GoodResource ==
    [present |-> TRUE, ns |-> A, name |-> A, id |-> "i", run |-> "r", env |-> A]
Code == [p \in Positions |-> [kind |-> "CODE", text |-> "plain"]]

Plain(kind, res) ==
    [kind |-> kind, resource |-> res, parts |-> Code, unknown |-> {},
     scannedAt |-> 1, chunkCount |-> 1, chunkIndex |-> 0]

Texts(ps) == {ps[p].text : p \in Positions}

\* Any resource on a plain payload, any parts and unknown fields on a good
\* resource (where an agent sends the redacted text, no unknown fields), and
\* any chunk fields.
MCDecoded ==
         {Plain("deltas", r) : r \in MCResource}
    \cup {m \in {[Plain(k, GoodResource) EXCEPT !.parts = ps, !.unknown = u] :
                    k \in Kinds, ps \in [Positions -> Part],
                    u \in SUBSET DOMAIN Messages} :
             RedactedText \in Texts(m.parts) => m.unknown = {}}
    \cup {[Plain("static_baseline", GoodResource)
              EXCEPT !.scannedAt = t, !.chunkCount = n, !.chunkIndex = i] :
             t \in 0..1, n \in 0..2, i \in -1..2}

\* Bound: payloads are followed through the collectors whose other settings
\* are ordinary ones; the processors do not read them.
Ordinary ==
    /\ cfg.addr = UnsetAddr /\ cfg.auth = "tokens"
    /\ cfg.limit = [rate |-> "positive", burst |-> "positive"]
    /\ cfg.prefix = [header |-> FALSE]
    /\ cfg.decodes = "default"
    /\ cfg.forward = [url |-> "good", key |-> "none"]

\* Bound: the settings of a processor vary where its part of the payload
\* does.
Telling(m) ==
    IF m.parts = Code THEN ~ cfg.redaction.patterns
    ELSE cfg.namespace = Off /\ cfg.environment = Off

MCSend == step = "serving" /\ Ordinary /\ Send /\ Telling(msg')

\* Bound: an address other than the default, or a header, comes without
\* stamps.
MCStart ==
    /\ Start
    /\ cfg'.addr # UnsetAddr \/ "header" \in asked' =>
          {cfg'.environment, cfg'.namespace} \subseteq {Failed, Off}

MCNext == MCStart \/ MCSend \/ Handle \/ Ended

MCSpec == Init /\ [][MCNext]_vars
=============================================================================
