----------------------------- MODULE Processors -----------------------------
(***************************************************************************)
(* internal/processor, the validation of ingest/handler.go, and instanceOf *)
(* of internal/forward/forward.go: what a decoded payload goes through     *)
(* from the handler to the sink's shard.  registerRoutes wraps the sink in *)
(* Environment, that in Namespace, and that in Redaction.                  *)
(*                                                                         *)
(* The branch sites of a payload are its parts by their positions, in      *)
(* conditions and case labels.  Unknown fields hang at messages, each      *)
(* reached from the payload through a field of some shape.                 *)
(***************************************************************************)
EXTENDS Integers, FiniteSets, Settings

CONSTANTS
    Positions,   \* where the parts of a payload stand
    PartKinds,   \* ConditionPartKind; enums are open, so any number may come
    PartTexts,   \* what a part may say
    Matched,     \* the texts that a pattern of the operator's matches
    Messages,    \* the messages of a payload, by the field that holds them
    Decoded,     \* the payloads that agents send
    Nothing      \* no payload

\* The agent's text has been through the protobuf decoder.
AgentText == {t \in Text : ValidString(t)}

Kinds == {"deltas", "manifest", "static_baseline"}

Shapes == {"top", "singular", "list", "map"}

Part == [kind : PartKinds, text : PartTexts]

Resource ==
    [present : BOOLEAN, ns : AgentText, name : AgentText,
     id : STRING, run : STRING, env : AgentText]

Payload ==
    [kind : Kinds, resource : Resource, parts : [Positions -> Part],
     unknown : SUBSET DOMAIN Messages,
     scannedAt : Int, chunkCount : Int, chunkIndex : Int]

ASSUME PayloadsAssumption ==
    /\ IsFiniteSet(Positions)
    /\ Messages \in [DOMAIN Messages -> Shapes]
    /\ Decoded \subseteq Payload

VARIABLES
    stage,      \* the component that has the payload, "none" before it
    sent,       \* history: the payload as it was decoded
    msg,        \* the payload, which the processors change in place
    mismatch,   \* the fields counted as a mismatch
    redacted    \* metrics.RedactedLiterals

processorVars == <<stage, sent, msg, mismatch, redacted>>

-----------------------------------------------------------------------------
(* The handler's validation.                                               *)

ValidResource(res) ==
    /\ res.present
    /\ TrimSpace(res.name) # Empty
    /\ ~ IsDotSegment(TrimSpace(res.name))
    /\ ~ IsDotSegment(TrimSpace(res.ns))
    /\ res.id # "" /\ res.run # ""

ValidChunk(m) ==
    /\ m.scannedAt > 0
    /\ m.chunkCount >= 1
    /\ m.chunkIndex >= 0
    /\ m.chunkIndex < m.chunkCount

Valid(m) ==
    ValidResource(m.resource) /\ (m.kind = "static_baseline" => ValidChunk(m))

Validate ==
    /\ stage = "handler"
    /\ stage' = IF Valid(msg) THEN "redaction" ELSE "rejected"
    /\ UNCHANGED <<sent, msg, cfg, mismatch, redacted>>

-----------------------------------------------------------------------------
(* Redaction.                                                              *)

\* Mutant: only the kind this collector knows as a literal is one.
IsLiteralByName(part) == part.kind = "STRING_LITERAL"

\* Every kind but two counts as a literal.
IsLiteral(part) == part.kind \notin {"CODE", "PLACEHOLDER"}

Blocks(text) == cfg.redaction.all \/ (cfg.redaction.patterns /\ text \in Matched)

RedactedText == "redacted"

\* The parts that redactSites replaces, in a payload that has sites.
RedactedPositions(m) ==
    {p \in Positions : /\ m.kind # "deltas"
                       /\ IsLiteral(m.parts[p]) /\ Blocks(m.parts[p].text)}

RedactSites(m) ==
    [p \in Positions |->
        IF p \in RedactedPositions(m)
        THEN [m.parts[p] EXCEPT !.text = RedactedText] ELSE m.parts[p]]

\* Every message is reached, through singular, list and map fields.
DropUnknown(unknown) ==
    {m \in unknown : Messages[m] \notin {"top", "singular", "list", "map"}}

Redact ==
    /\ stage = "redaction"
    /\ stage' = "namespace"
    /\ IF Enabled(cfg.redaction)
       THEN /\ msg' = [msg EXCEPT !.parts = RedactSites(msg),
                                  !.unknown = DropUnknown(@)]
            /\ redacted' = redacted + Cardinality(RedactedPositions(msg))
       ELSE UNCHANGED <<msg, redacted>>
    /\ UNCHANGED <<sent, cfg, mismatch>>

-----------------------------------------------------------------------------
(* Namespace and Environment.                                              *)

\* Mutant: only an empty namespace counts as none.
StampedNamespaceExact(ns) ==
    CASE ns = Empty -> cfg.namespace.value
      [] ns # Empty /\ cfg.namespace.action = "upsert" -> cfg.namespace.value
      [] OTHER -> ns

\* Namespace.stamp: values are compared, and a blank one is found, after
\* trimming; a value that agrees is left as the agent wrote it.
StampedNamespace(ns) ==
    CASE TrimSpace(ns) = Empty -> TrimSpace(cfg.namespace.value)
      [] TrimSpace(ns) = TrimSpace(cfg.namespace.value) -> ns
      [] OTHER -> IF cfg.namespace.action = "upsert"
                  THEN TrimSpace(cfg.namespace.value) ELSE ns

NamespaceDiffers(ns) ==
    TrimSpace(ns) \notin {Empty, TrimSpace(cfg.namespace.value)}

Namespace ==
    /\ stage = "namespace"
    /\ stage' = "environment"
    /\ IF cfg.namespace # Off
       THEN /\ msg' = [msg EXCEPT !.resource.ns = StampedNamespace(@)]
            /\ mismatch' = IF NamespaceDiffers(msg.resource.ns)
                           THEN mismatch \cup {"namespace"} ELSE mismatch
       ELSE UNCHANGED <<msg, mismatch>>
    /\ UNCHANGED <<sent, cfg, redacted>>

\* Environment.stamp compares the values as they are.
StampedEnvironment(env) ==
    IF env = Empty \/ cfg.environment.action = "upsert"
    THEN cfg.environment.value ELSE env

\* Mutant: the count is skipped when the value is overwritten.
EnvironmentDiffersInsert(env) ==
    env \notin {Empty, cfg.environment.value} /\ cfg.environment.action = "insert"

EnvironmentDiffers(env) == env \notin {Empty, cfg.environment.value}

Environment ==
    /\ stage = "environment"
    /\ stage' = "sink"
    /\ IF cfg.environment # Off
       THEN /\ msg' = [msg EXCEPT !.resource.env = StampedEnvironment(@)]
            /\ mismatch' = IF EnvironmentDiffers(msg.resource.env)
                           THEN mismatch \cup {"environment"} ELSE mismatch
       ELSE UNCHANGED <<msg, mismatch>>
    /\ UNCHANGED <<sent, cfg, redacted>>

\* instanceOf and shardKey: the run is left out.
InstanceOf(res) ==
    [ns |-> TrimSpace(res.ns), name |-> TrimSpace(res.name), id |-> res.id]

-----------------------------------------------------------------------------

ProcessorsInit ==
    /\ stage = "none"
    /\ sent = Nothing /\ msg = Nothing
    /\ mismatch = {}
    /\ redacted = 0

\* The handler has decoded the payload.
Receive(m) ==
    /\ stage = "none"
    /\ stage' = "handler"
    /\ sent' = m /\ msg' = m
    /\ UNCHANGED <<cfg, mismatch, redacted>>

Process == Validate \/ Redact \/ Namespace \/ Environment

-----------------------------------------------------------------------------
(* Properties.                                                             *)

\* What reaches the sink can be keyed and attributed by the backend, also
\* after the stamps: the handler's rules hold of the payload as it leaves,
\* and its text can be encoded.
SinkCanKey ==
    stage = "sink" => Valid(msg) /\ ValidString(msg.resource.ns)
                                 /\ ValidString(msg.resource.env)

\* With redaction on, nothing the settings block leaves the collector: no
\* part that might be a literal keeps a blocked text, and no message keeps
\* a field this collector cannot look into.
NothingBlockedLeaves ==
    stage = "sink" /\ Enabled(cfg.redaction) =>
        /\ msg.unknown = {}
        /\ msg.kind # "deltas" =>
              \A p \in Positions :
                  msg.parts[p].kind \in {"CODE", "PLACEHOLDER"}
                  \/ ~ Blocks(sent.parts[p].text)
                  \/ msg.parts[p].text = RedactedText

\* Nothing is rewritten in silence: every replaced text is counted, and none
\* is that does not read as redacted (an agent may itself send the text that
\* stands for a redacted one); a value the agent named is overwritten only
\* under upsert and with a mismatch counted; and everything else is as it
\* was decoded.
RewritesAreCounted ==
    stage = "sink" =>
        /\ Cardinality({p \in Positions : msg.parts[p] # sent.parts[p]}) <= redacted
        /\ redacted <= Cardinality({p \in Positions : msg.parts[p].text = RedactedText})
        /\ TrimSpace(sent.resource.ns) # Empty /\ msg.resource.ns # sent.resource.ns
              => "namespace" \in mismatch /\ cfg.namespace.action = "upsert"
        /\ sent.resource.env # Empty /\ msg.resource.env # sent.resource.env
              => "environment" \in mismatch /\ cfg.environment.action = "upsert"
        /\ \A p \in Positions :
              /\ msg.parts[p].kind = sent.parts[p].kind
              /\ ~ IsLiteral(sent.parts[p]) => msg.parts[p] = sent.parts[p]
        /\ msg = [sent EXCEPT !.parts = msg.parts, !.unknown = msg.unknown,
                              !.resource.ns = msg.resource.ns,
                              !.resource.env = msg.resource.env]

\* Payloads that name one service instance, in whatever spelling, go to one
\* shard (the comment on instanceOf): blank and padded namespaces included,
\* before and after the stamp.
OneServiceOneShard ==
    stage = "sink" =>
        \A ns, name \in AgentText :
            LET other == [sent.resource EXCEPT !.ns = ns, !.name = name]
                there == IF cfg.namespace = Off THEN other
                         ELSE [other EXCEPT !.ns = StampedNamespace(@)]
            IN  InstanceOf(other) = InstanceOf(sent.resource)
                    => InstanceOf(there) = InstanceOf(msg.resource)
=============================================================================
