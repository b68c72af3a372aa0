------------------------------ MODULE Settings ------------------------------
(***************************************************************************)
(* cmd/otherlode-collector/main.go: what the collector makes of its        *)
(* environment variables.  Each resolver yields a setting or Failed.       *)
(*                                                                         *)
(* A variable's raw value is abstracted to what the resolvers tell apart;  *)
(* "" is an unset variable.  Text that is trimmed or compared is a record: *)
(* what is left after TrimSpace, and whether there was space around it.    *)
(***************************************************************************)
EXTENDS Naturals

CONSTANTS
    Failed,       \* a resolver's error
    Cores,        \* what a text may be once trimmed, "" if it was blank
    DotSegments,  \* of these, "." and ".."
    NotUTF8,      \* and the ones that are not valid UTF-8
    Hosts, Ports, \* what an address may be made of
    Unspecified,  \* the hosts that are empty, or an unspecified address in
                  \* any notation, zoned or mapped
    LookupPort    \* the number of each port text, Failed for an unknown service

ASSUME TextsAssumption == "" \in Cores \ (DotSegments \cup NotUTF8)

ASSUME HostsAssumption == "" \in Unspecified /\ "127.0.0.1" \notin Unspecified

ASSUME PortsAssumption ==
    /\ LookupPort \in [Ports \cup {"4319"} -> Nat \cup {Failed}]
    /\ LookupPort["4319"] = 4319

VARIABLE cfg      \* the settings main has resolved so far

Text == [core : Cores, padded : BOOLEAN]

Empty == [core |-> "", padded |-> FALSE]

TrimSpace(t) == [t EXCEPT !.padded = FALSE]

IsDotSegment(t) == t.core \in DotSegments

\* proto3 strings, and Go's decoder of them, are valid UTF-8.
ValidString(t) == t.core \notin NotUTF8

-----------------------------------------------------------------------------

Bools == {"", "true", "false", "garbage"}

Numbers == {"", "positive", "zero", "negative", "garbage"}

\* An address: not set, or a text that net.SplitHostPort takes apart, or one
\* that it refuses.
HostPort(h, p) == [form |-> "host_port", host |-> h, port |-> p]
UnsetAddr == [form |-> "unset"]
NoPort == [form |-> "no_port"]
Addrs == {HostPort(h, p) : h \in Hosts, p \in Ports} \cup {UnsetAddr, NoPort}

ResolveAddr(raw) == IF raw = UnsetAddr THEN HostPort("", "4319") ELSE raw

\* SplitHostPort and LookupPort take the address, as for net.Listen.
AddrResolves(addr) == addr.form = "host_port" /\ LookupPort[addr.port] # Failed

\* Mutant: the host is dialled as it was configured.
HealthzURLAsIs(addr) == [host |-> addr.host, port |-> LookupPort[addr.port]]

\* For an address that resolves.
HealthzURL(addr) ==
    [host |-> IF addr.host \in Unspecified THEN "127.0.0.1" ELSE addr.host,
     port |-> LookupPort[addr.port]]

ResolveLogLevel(raw) == IF raw \in {"", "level"} THEN "level" ELSE Failed

\* A list with an empty entry is refused as a whole.
ParseTokenList(raw) == IF raw = "tokens" THEN "tokens" ELSE Failed

\* It fails closed.  A file is usable when tokenfile.Open takes it.
ResolveAuthTokens(raw, file, noAuth) ==
    CASE raw # "" /\ file # "" -> Failed
      [] raw = "" /\ file # "" -> IF file = "usable" THEN "file" ELSE Failed
      [] raw # "" /\ file = "" -> ParseTokenList(raw)
      [] raw = "" /\ file = "" -> IF noAuth = "true" THEN "none" ELSE Failed

\* The rate may also parse as NaN or an infinity, which no comparison
\* orders.  The defaults are positive.
ResolveRateLimit(rps, burst) ==
    IF \/ rps \in {"garbage", "negative", "nonfinite"}
       \/ burst = "garbage"
       \/ rps \in {"", "positive"} /\ burst \in {"zero", "negative"}
    THEN Failed
    ELSE [rate |-> IF rps = "zero" THEN "zero" ELSE "positive",
          burst |-> IF burst = "" THEN "positive" ELSE burst]

ResolveIPv6Prefix(raw) == IF raw \in {"", "1_to_128"} THEN "prefix" ELSE Failed

\* positiveIntEnv and positiveDurationEnv: zero stands for the default.
PositiveEnv(raw) ==
    CASE raw = "" -> "default"
      [] raw = "positive" -> "positive"
      [] OTHER -> Failed

ResolveMaxConcurrentDecodes(raw) == PositiveEnv(raw)

\* resolveForwardConfig's choice of the backend key: at most one source, a
\* key that a header can carry, and only with somewhere to send it.
ForwardKey(url, raw, file) ==
    CASE url = "" /\ (raw # "" \/ file # "") -> Failed
      [] raw # "" /\ file # "" -> Failed
      [] raw = "" /\ file = "" -> "none"
      [] url # "" /\ raw = "" /\ file # "" ->
            IF file = "usable" THEN "file" ELSE Failed
      [] url # "" /\ raw # "" /\ file = "" ->
            IF raw = "key" THEN "key" ELSE Failed

\* The numbers and durations are looked at whether forwarding is on or not.
ResolveForwardConfig(url, raw, file, tuning) ==
    IF ForwardKey(url, raw, file) = Failed \/ PositiveEnv(tuning) = Failed
    THEN Failed
    ELSE [url |-> url, key |-> ForwardKey(url, raw, file)]

ParseAction(raw) ==
    CASE raw \in {"", "insert"} -> "insert"
      [] raw = "upsert" -> "upsert"
      [] OTHER -> Failed

Off == [value |-> Empty, action |-> "insert"]

\* What resolveEnvironment and resolveNamespace share.
Stamp(value, raw) ==
    IF \/ ~ ValidString(value) \/ ParseAction(raw) = Failed
       \/ value = Empty /\ raw # ""
    THEN Failed
    ELSE IF value = Empty THEN Off
         ELSE [value |-> value, action |-> ParseAction(raw)]

ResolveEnvironment(value, raw) == Stamp(TrimSpace(value), raw)

\* Mutant: dots are let through.
ResolveNamespaceDots(value, raw) == Stamp(TrimSpace(value), raw)

ResolveNamespace(value, raw) ==
    IF IsDotSegment(TrimSpace(value)) THEN Failed ELSE Stamp(TrimSpace(value), raw)

\* Mutant: a boolean that does not parse means false.
ResolveRedactionLax(blocked, all) ==
    IF blocked = "broken" THEN Failed
    ELSE [patterns |-> blocked = "patterns", all |-> all = "true"]

\* blocked holds no pattern, patterns, or one that does not compile.
ResolveRedaction(blocked, all) ==
    IF blocked = "broken" \/ all = "garbage" THEN Failed
    ELSE [patterns |-> blocked = "patterns", all |-> all = "true"]

\* RedactionConfig.Enabled.
Enabled(redaction) == redaction.patterns \/ redaction.all
=============================================================================
