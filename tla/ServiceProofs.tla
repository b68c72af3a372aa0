--------------------------- MODULE ServiceProofs ---------------------------
(***************************************************************************)
(* Proofs about Service: the start-up for every text the operator may      *)
(* write, and the processors for every payload of every number of parts.   *)
(***************************************************************************)
EXTENDS Service, TLAPS, FiniteSetTheorems

-----------------------------------------------------------------------------
(* The start-up: what is settled once a setting is behind main.            *)

FromWatch       == {"watch", "listen", "serving"}
FromRoutes      == FromWatch \cup {"routes"}
FromRedaction   == FromRoutes \cup {"redaction"}
FromNamespace   == FromRedaction \cup {"namespace"}
FromEnvironment == FromNamespace \cup {"environment"}
FromForward     == FromEnvironment \cup {"forward"}
FromDecodes     == FromForward \cup {"decodes"}
FromPrefix      == FromDecodes \cup {"prefix"}
FromLimit       == FromPrefix \cup {"limit"}
StepNames       == FromLimit \cup {"level", "addr", "auth", "exited"}

\* A control is on exactly when it was asked for, once main is past its
\* setting; until then nobody has asked.
Settled(control, past, on) ==
    IF step \in past THEN on <=> control \in asked
    ELSE step = "exited" \/ control \notin asked

AuthSettled == Settled("auth", FromLimit, cfg.auth # "none")

LimitSettled ==
    /\ Settled("limit", FromPrefix, cfg.limit.rate # "zero")
    /\ step \in FromPrefix /\ cfg.limit.rate = "positive" => cfg.limit.burst = "positive"

HeaderSettled == Settled("header", FromDecodes, cfg.prefix.header)

KeySettled ==
    /\ Settled("key", FromEnvironment, cfg.forward.key # "none")
    /\ step \in FromEnvironment /\ cfg.forward.key = "file" => cfg.forward.url # ""

\* A stamp that is on has a text that can be encoded.
GoodStamp(c) ==
    c = Off \/ /\ c \in [value : Text, action : {"insert", "upsert"}]
               /\ ValidString(c.value)

EnvironmentSettled ==
    /\ Settled("environment", FromNamespace, cfg.environment # Off)
    /\ step \in FromNamespace => GoodStamp(cfg.environment)

NamespaceSettled ==
    /\ Settled("namespace", FromRedaction, cfg.namespace # Off)
    /\ step \in FromRedaction =>
          GoodStamp(cfg.namespace) /\ ~ IsDotSegment(cfg.namespace.value)

RedactionSettled == Settled("redaction", FromRoutes, Enabled(cfg.redaction))

Controls == {"auth", "limit", "header", "key", "environment", "namespace", "redaction"}

\* The listener has the host and the port it was configured with, or a port
\* of the kernel's.
BoundInv ==
    step = "serving" =>
        LET addr == ResolveAddr(cfg.addr)
        IN /\ AddrResolves(addr) /\ bound.host = addr.host
           /\ IF LookupPort[addr.port] = 0 THEN bound.port \in Ephemeral
              ELSE bound.port = LookupPort[addr.port]

ProbeInv == ProbeSucceeds /\ (step # "serving" => probe = 9)

StartupInv ==
    /\ step \in StepNames
    /\ DOMAIN cfg = SettingNames
    /\ asked \subseteq Controls
    /\ AuthSettled /\ LimitSettled /\ HeaderSettled /\ KeySettled
    /\ EnvironmentSettled /\ NamespaceSettled /\ RedactionSettled
    /\ step \in FromWatch => chain \cup routes["ingest"] = asked /\ routes["healthz"] = {}
    /\ step \in {"listen", "serving"} => watched = Files
    /\ BoundInv
    /\ ProbeInv

LEMMA StartupStart == StartupInit => StartupInv
  BY DEF StartupInit, StartupInv, StepNames, SettingNames, Settled, AuthSettled,
     LimitSettled, HeaderSettled, KeySettled, EnvironmentSettled, NamespaceSettled,
     RedactionSettled, BoundInv, ProbeInv, ProbeSucceeds, FromWatch, FromRoutes, FromRedaction, FromNamespace,
     FromEnvironment, FromForward, FromDecodes, FromPrefix, FromLimit

-----------------------------------------------------------------------------
(* The resolvers: what is not Failed is what was asked for.                *)

LEMMA AuthResolves ==
  ASSUME NEW raw \in {"", "tokens", "empty_entry"},
         NEW file \in {"", "usable", "unusable"}, NEW noAuth \in Bools,
         ResolveAuthTokens(raw, file, noAuth) # Failed
  PROVE  ResolveAuthTokens(raw, file, noAuth) # "none"
            <=> raw # "" \/ file # "" \/ noAuth # "true"
  BY DEF ResolveAuthTokens, ParseTokenList, Bools

LEMMA LimitResolves ==
  ASSUME NEW rps \in Numbers \cup {"nonfinite"}, NEW burst \in Numbers,
         ResolveRateLimit(rps, burst) # Failed
  PROVE  /\ ResolveRateLimit(rps, burst).rate # "zero" <=> rps # "zero"
         /\ ResolveRateLimit(rps, burst).rate = "positive"
               => ResolveRateLimit(rps, burst).burst = "positive"
  BY DEF ResolveRateLimit, Numbers

LEMMA ForwardResolves ==
  ASSUME NEW url \in {"", "good", "bad"}, NEW raw \in {"", "spaces", "key", "control"},
         NEW file \in {"", "usable", "unusable"}, NEW tuning \in Numbers,
         ResolveForwardConfig(url, raw, file, tuning) # Failed
  PROVE  /\ ResolveForwardConfig(url, raw, file, tuning).key # "none"
               <=> raw # "" \/ file # ""
         /\ ResolveForwardConfig(url, raw, file, tuning).key = "file"
               => ResolveForwardConfig(url, raw, file, tuning).url # ""
  BY DEF ResolveForwardConfig, ForwardKey

LEMMA TrimmedText ==
  ASSUME NEW t \in Text
  PROVE  TrimSpace(t) \in Text /\ TrimSpace(t).core = t.core
  BY DEF Text, TrimSpace

LEMMA StampResolves ==
  ASSUME NEW value \in Text, NEW raw \in ActionTexts, Stamp(value, raw) # Failed
  PROVE  /\ Stamp(value, raw) # Off <=> value # Empty \/ raw # ""
         /\ GoodStamp(Stamp(value, raw))
         /\ Stamp(value, raw).value = value
<1>1. ValidString(value) /\ ParseAction(raw) # Failed /\ (value = Empty => raw = "")
  BY DEF Stamp
<1>2. ParseAction(raw) \in {"insert", "upsert"}
  BY <1>1 DEF ParseAction
<1>3. CASE value = Empty
  BY <1>1, <1>3 DEF Stamp, Off, GoodStamp
<1>4. CASE value # Empty
  <2>1. Stamp(value, raw) = [value |-> value, action |-> ParseAction(raw)]
    BY <1>1, <1>4 DEF Stamp
  <2>2. Stamp(value, raw).value = value
    BY <2>1
  <2>3. Stamp(value, raw) # Off
    BY <1>4, <2>2 DEF Off
  <2>4. Stamp(value, raw) \in [value : Text, action : {"insert", "upsert"}]
    BY <1>2, <2>1
  <2> QED BY <1>1, <1>4, <2>2, <2>3, <2>4 DEF GoodStamp
<1> QED BY <1>3, <1>4

LEMMA EnvironmentResolves ==
  ASSUME NEW value \in EnvTexts, NEW raw \in ActionTexts,
         ResolveEnvironment(value, raw) # Failed
  PROVE  /\ ResolveEnvironment(value, raw) # Off <=> TrimSpace(value) # Empty \/ raw # ""
         /\ GoodStamp(ResolveEnvironment(value, raw))
<1>1. TrimSpace(value) \in Text
  BY StartupAssumption, TrimmedText
<1> QED BY <1>1, StampResolves DEF ResolveEnvironment

LEMMA NamespaceResolves ==
  ASSUME NEW value \in EnvTexts, NEW raw \in ActionTexts,
         ResolveNamespace(value, raw) # Failed
  PROVE  /\ ResolveNamespace(value, raw) # Off <=> TrimSpace(value) # Empty \/ raw # ""
         /\ GoodStamp(ResolveNamespace(value, raw))
         /\ ~ IsDotSegment(ResolveNamespace(value, raw).value)
<1>1. TrimSpace(value) \in Text
  BY StartupAssumption, TrimmedText
<1>2. /\ ~ IsDotSegment(TrimSpace(value))
      /\ ResolveNamespace(value, raw) = Stamp(TrimSpace(value), raw)
  BY DEF ResolveNamespace
<1> QED BY <1>1, <1>2, StampResolves

LEMMA RedactionResolves ==
  ASSUME NEW blocked \in {"", "blank_lines", "patterns", "broken"}, NEW all \in Bools,
         ResolveRedaction(blocked, all) # Failed
  PROVE  Enabled(ResolveRedaction(blocked, all))
            <=> blocked \in {"patterns", "broken"} \/ all \notin {"", "false"}
  BY DEF ResolveRedaction, Enabled, Bools

-----------------------------------------------------------------------------
(* The start-up: each step.                                                *)

\* Resolving setting s leaves the other settings alone.
LEMMA ResolveFrame ==
  ASSUME NEW s \in SettingNames, NEW v, NEW next, DOMAIN cfg = SettingNames,
         Resolve(s, v, next)
  PROVE  /\ DOMAIN cfg' = SettingNames
         /\ cfg'[s] = v
         /\ \A t \in SettingNames \ {s} : cfg'[t] = cfg[t]
         /\ step = s
         /\ step' = IF v = Failed THEN "exited" ELSE next
         /\ UNCHANGED <<chain, routes, watched, bound, probe>>
  BY DEF Resolve

\* A step that does not bring main past a setting keeps what is settled
\* about it.
Past(past) ==
    \/ step' = "exited" /\ "exited" \notin past
    \/ step \in past <=> step' \in past

LEMMA AuthKept ==
  ASSUME AuthSettled, step # "exited", Past(FromLimit),
         cfg'["auth"] = cfg["auth"], "auth" \in asked' <=> "auth" \in asked
  PROVE  AuthSettled'
  BY DEF AuthSettled, Settled, Past

LEMMA LimitKept ==
  ASSUME LimitSettled, step # "exited", Past(FromPrefix),
         cfg'["limit"] = cfg["limit"], "limit" \in asked' <=> "limit" \in asked
  PROVE  LimitSettled'
  BY DEF LimitSettled, Settled, Past

LEMMA HeaderKept ==
  ASSUME HeaderSettled, step # "exited", Past(FromDecodes),
         cfg'["prefix"] = cfg["prefix"], "header" \in asked' <=> "header" \in asked
  PROVE  HeaderSettled'
  BY DEF HeaderSettled, Settled, Past

LEMMA KeyKept ==
  ASSUME KeySettled, step # "exited", Past(FromEnvironment),
         cfg'["forward"] = cfg["forward"], "key" \in asked' <=> "key" \in asked
  PROVE  KeySettled'
  BY DEF KeySettled, Settled, Past

LEMMA EnvironmentKept ==
  ASSUME EnvironmentSettled, step # "exited", Past(FromNamespace),
         cfg'["environment"] = cfg["environment"], "environment" \in asked' <=> "environment" \in asked
  PROVE  EnvironmentSettled'
  BY DEF EnvironmentSettled, Settled, Past

LEMMA NamespaceKept ==
  ASSUME NamespaceSettled, step # "exited", Past(FromRedaction),
         cfg'["namespace"] = cfg["namespace"], "namespace" \in asked' <=> "namespace" \in asked
  PROVE  NamespaceSettled'
  BY DEF NamespaceSettled, Settled, Past

LEMMA RedactionKept ==
  ASSUME RedactionSettled, step # "exited", Past(FromRoutes),
         cfg'["redaction"] = cfg["redaction"], "redaction" \in asked' <=> "redaction" \in asked
  PROVE  RedactionSettled'
  BY DEF RedactionSettled, Settled, Past

\* Settings that no control depends on.
PlainPair(s, next) ==
    \/ s = "level" /\ next = "addr"
    \/ s = "addr" /\ next = "auth"
    \/ s = "decodes" /\ next = "forward"

LEMMA PlainStep ==
  ASSUME StartupInv, NEW s, NEW v, NEW next, Resolve(s, v, next), UNCHANGED asked,
         PlainPair(s, next)
  PROVE  StartupInv'
<1> USE DEF Settled, FromWatch, FromRoutes, FromRedaction, FromNamespace,
            FromEnvironment, FromForward, FromDecodes, FromPrefix, FromLimit, StepNames,
            SettingNames, Controls, PlainPair
<1>1. /\ step = s /\ step' \in {"exited", next}
      /\ DOMAIN cfg' = SettingNames
      /\ \A t \in SettingNames \ {s} : cfg'[t] = cfg[t]
      /\ probe' = 9
  BY ResolveFrame DEF StartupInv, ProbeInv
<1>2. AuthSettled' /\ LimitSettled' /\ HeaderSettled' /\ KeySettled'
  BY <1>1, AuthKept, LimitKept, HeaderKept, KeyKept DEF StartupInv, Past
<1>3. EnvironmentSettled' /\ NamespaceSettled' /\ RedactionSettled'
  BY <1>1, EnvironmentKept, NamespaceKept, RedactionKept DEF StartupInv, Past
<1> QED BY <1>1, <1>2, <1>3 DEF StartupInv, BoundInv, ProbeInv, ProbeSucceeds

LEMMA StartupStep == ASSUME StartupInv, Startup PROVE StartupInv'
<1> USE DEF Settled, FromWatch, FromRoutes, FromRedaction, FromNamespace,
            FromEnvironment, FromForward, FromDecodes, FromPrefix, FromLimit, StepNames,
            SettingNames, Controls
<1>1. CASE LogLevel \/ Addr \/ MaxDecodes
  <2>1. CASE LogLevel
    <3>1. PICK v : Resolve("level", v, "addr") /\ UNCHANGED asked
      BY <2>1 DEF LogLevel
    <3> QED BY <3>1, PlainStep DEF PlainPair
  <2>2. CASE Addr
    <3>1. PICK v : Resolve("addr", v, "auth") /\ UNCHANGED asked
      BY <2>2 DEF Addr
    <3> QED BY <3>1, PlainStep DEF PlainPair
  <2>3. CASE MaxDecodes
    <3>1. PICK v : Resolve("decodes", v, "forward") /\ UNCHANGED asked
      BY <2>3 DEF MaxDecodes
    <3> QED BY <3>1, PlainStep DEF PlainPair
  <2> QED BY <1>1, <2>1, <2>2, <2>3
<1>2. CASE AuthTokens
  <2>1. PICK raw \in {"", "tokens", "empty_entry"}, file \in {"", "usable", "unusable"},
             noAuth \in Bools :
          /\ Resolve("auth", ResolveAuthTokens(raw, file, noAuth), "limit")
          /\ Ask(raw # "" \/ file # "" \/ noAuth # "true", "auth")
    BY <1>2 DEF AuthTokens
  <2>2. /\ step = "auth" /\ step' \in {"exited", "limit"}
        /\ DOMAIN cfg' = SettingNames
        /\ \A t \in SettingNames \ {"auth"} : cfg'[t] = cfg[t]
        /\ probe' = 9
    BY <2>1, ResolveFrame DEF StartupInv, ProbeInv
  <2>3. \A c : c # "auth" => (c \in asked' <=> c \in asked)
    BY <2>1 DEF Ask
  <2>4. HeaderSettled' /\ LimitSettled' /\ KeySettled' /\ EnvironmentSettled' /\ NamespaceSettled' /\ RedactionSettled'
    BY <2>2, <2>3, HeaderKept, LimitKept, KeyKept, EnvironmentKept, NamespaceKept, RedactionKept DEF StartupInv, Past
  <2>5. AuthSettled'
    <3>1. "auth" \notin asked
      BY <2>2 DEF StartupInv, AuthSettled
    <3>2. "auth" \in asked' <=> (raw # "" \/ file # "" \/ noAuth # "true")
      BY <2>1, <3>1 DEF Ask
    <3>3. /\ cfg'["auth"] = ResolveAuthTokens(raw, file, noAuth)
          /\ step' = "limit" => ResolveAuthTokens(raw, file, noAuth) # Failed
      BY <2>1, ResolveFrame DEF StartupInv
    <3> QED BY <2>2, <3>2, <3>3, AuthResolves DEF AuthSettled
  <2>6. asked' \subseteq Controls
    BY <2>1 DEF StartupInv, Ask
  <2> QED BY <2>2, <2>4, <2>5, <2>6 DEF StartupInv, BoundInv, ProbeInv, ProbeSucceeds
<1>3. CASE RateLimit
  <2>1. PICK rps \in Numbers \cup {"nonfinite"}, burst \in Numbers :
          /\ Resolve("limit", ResolveRateLimit(rps, burst), "prefix")
          /\ Ask(rps # "zero", "limit")
    BY <1>3 DEF RateLimit
  <2>2. /\ step = "limit" /\ step' \in {"exited", "prefix"}
        /\ DOMAIN cfg' = SettingNames
        /\ \A t \in SettingNames \ {"limit"} : cfg'[t] = cfg[t]
        /\ probe' = 9
    BY <2>1, ResolveFrame DEF StartupInv, ProbeInv
  <2>3. \A c : c # "limit" => (c \in asked' <=> c \in asked)
    BY <2>1 DEF Ask
  <2>4. HeaderSettled' /\ AuthSettled' /\ KeySettled' /\ EnvironmentSettled' /\ NamespaceSettled' /\ RedactionSettled'
    BY <2>2, <2>3, HeaderKept, AuthKept, KeyKept, EnvironmentKept, NamespaceKept, RedactionKept DEF StartupInv, Past
  <2>5. LimitSettled'
    <3>1. "limit" \notin asked
      BY <2>2 DEF StartupInv, LimitSettled
    <3>2. "limit" \in asked' <=> (rps # "zero")
      BY <2>1, <3>1 DEF Ask
    <3>3. /\ cfg'["limit"] = ResolveRateLimit(rps, burst)
          /\ step' = "prefix" => ResolveRateLimit(rps, burst) # Failed
      BY <2>1, ResolveFrame DEF StartupInv
    <3> QED BY <2>2, <3>2, <3>3, LimitResolves DEF LimitSettled
  <2>6. asked' \subseteq Controls
    BY <2>1 DEF StartupInv, Ask
  <2> QED BY <2>2, <2>4, <2>5, <2>6 DEF StartupInv, BoundInv, ProbeInv, ProbeSucceeds
<1>4. CASE Forward
  <2>1. PICK url \in {"", "good", "bad"}, raw \in {"", "spaces", "key", "control"},
             file \in {"", "usable", "unusable"}, tuning \in Numbers :
          /\ Resolve("forward", ResolveForwardConfig(url, raw, file, tuning), "environment")
          /\ Ask(raw # "" \/ file # "", "key")
    BY <1>4 DEF Forward
  <2>2. /\ step = "forward" /\ step' \in {"exited", "environment"}
        /\ DOMAIN cfg' = SettingNames
        /\ \A t \in SettingNames \ {"forward"} : cfg'[t] = cfg[t]
        /\ probe' = 9
    BY <2>1, ResolveFrame DEF StartupInv, ProbeInv
  <2>3. \A c : c # "key" => (c \in asked' <=> c \in asked)
    BY <2>1 DEF Ask
  <2>4. HeaderSettled' /\ AuthSettled' /\ LimitSettled' /\ EnvironmentSettled' /\ NamespaceSettled' /\ RedactionSettled'
    BY <2>2, <2>3, HeaderKept, AuthKept, LimitKept, EnvironmentKept, NamespaceKept, RedactionKept DEF StartupInv, Past
  <2>5. KeySettled'
    <3>1. "key" \notin asked
      BY <2>2 DEF StartupInv, KeySettled
    <3>2. "key" \in asked' <=> (raw # "" \/ file # "")
      BY <2>1, <3>1 DEF Ask
    <3>3. /\ cfg'["forward"] = ResolveForwardConfig(url, raw, file, tuning)
          /\ step' = "environment" => ResolveForwardConfig(url, raw, file, tuning) # Failed
      BY <2>1, ResolveFrame DEF StartupInv
    <3>4. CASE step' = "environment"
      <4>1. PICK r : r = ResolveForwardConfig(url, raw, file, tuning)
        OBVIOUS
      <4>2. r # Failed /\ cfg'["forward"] = r
        BY <3>3, <3>4, <4>1
      <4>3. (r.key # "none" <=> raw # "" \/ file # "") /\ (r.key = "file" => r.url # "")
        <5>1. ResolveForwardConfig(url, raw, file, tuning) # Failed
          BY <4>1, <4>2
        <5>2. r.key # "none" <=> raw # "" \/ file # ""
          BY <4>1, <5>1, ForwardResolves
        <5>3. r.key = "file" => r.url # ""
          BY <4>1, <5>1, ForwardResolves
        <5> QED BY <5>2, <5>3
      <4> QED BY <3>2, <3>4, <4>2, <4>3 DEF KeySettled
    <3> QED BY <2>2, <3>4 DEF KeySettled
  <2>6. asked' \subseteq Controls
    BY <2>1 DEF StartupInv, Ask
  <2> QED BY <2>2, <2>4, <2>5, <2>6 DEF StartupInv, BoundInv, ProbeInv, ProbeSucceeds
<1>5. CASE EnvironmentEnv
  <2>1. PICK value \in EnvTexts, raw \in ActionTexts :
          /\ Resolve("environment", ResolveEnvironment(value, raw), "namespace")
          /\ Ask(TrimSpace(value) # Empty \/ raw # "", "environment")
    BY <1>5 DEF EnvironmentEnv
  <2>2. /\ step = "environment" /\ step' \in {"exited", "namespace"}
        /\ DOMAIN cfg' = SettingNames
        /\ \A t \in SettingNames \ {"environment"} : cfg'[t] = cfg[t]
        /\ probe' = 9
    BY <2>1, ResolveFrame DEF StartupInv, ProbeInv
  <2>3. \A c : c # "environment" => (c \in asked' <=> c \in asked)
    BY <2>1 DEF Ask
  <2>4. HeaderSettled' /\ AuthSettled' /\ LimitSettled' /\ KeySettled' /\ NamespaceSettled' /\ RedactionSettled'
    BY <2>2, <2>3, HeaderKept, AuthKept, LimitKept, KeyKept, NamespaceKept, RedactionKept DEF StartupInv, Past
  <2>5. EnvironmentSettled'
    <3>1. "environment" \notin asked
      BY <2>2 DEF StartupInv, EnvironmentSettled
    <3>2. "environment" \in asked' <=> (TrimSpace(value) # Empty \/ raw # "")
      BY <2>1, <3>1 DEF Ask
    <3>3. /\ cfg'["environment"] = ResolveEnvironment(value, raw)
          /\ step' = "namespace" => ResolveEnvironment(value, raw) # Failed
      BY <2>1, ResolveFrame DEF StartupInv
    <3> QED BY <2>2, <3>2, <3>3, EnvironmentResolves DEF EnvironmentSettled
  <2>6. asked' \subseteq Controls
    BY <2>1 DEF StartupInv, Ask
  <2> QED BY <2>2, <2>4, <2>5, <2>6 DEF StartupInv, BoundInv, ProbeInv, ProbeSucceeds
<1>6. CASE NamespaceEnv
  <2>1. PICK value \in EnvTexts, raw \in ActionTexts :
          /\ Resolve("namespace", ResolveNamespace(value, raw), "redaction")
          /\ Ask(TrimSpace(value) # Empty \/ raw # "", "namespace")
    BY <1>6 DEF NamespaceEnv
  <2>2. /\ step = "namespace" /\ step' \in {"exited", "redaction"}
        /\ DOMAIN cfg' = SettingNames
        /\ \A t \in SettingNames \ {"namespace"} : cfg'[t] = cfg[t]
        /\ probe' = 9
    BY <2>1, ResolveFrame DEF StartupInv, ProbeInv
  <2>3. \A c : c # "namespace" => (c \in asked' <=> c \in asked)
    BY <2>1 DEF Ask
  <2>4. HeaderSettled' /\ AuthSettled' /\ LimitSettled' /\ KeySettled' /\ EnvironmentSettled' /\ RedactionSettled'
    BY <2>2, <2>3, HeaderKept, AuthKept, LimitKept, KeyKept, EnvironmentKept, RedactionKept DEF StartupInv, Past
  <2>5. NamespaceSettled'
    <3>1. "namespace" \notin asked
      BY <2>2 DEF StartupInv, NamespaceSettled
    <3>2. "namespace" \in asked' <=> (TrimSpace(value) # Empty \/ raw # "")
      BY <2>1, <3>1 DEF Ask
    <3>3. /\ cfg'["namespace"] = ResolveNamespace(value, raw)
          /\ step' = "redaction" => ResolveNamespace(value, raw) # Failed
      BY <2>1, ResolveFrame DEF StartupInv
    <3> QED BY <2>2, <3>2, <3>3, NamespaceResolves DEF NamespaceSettled
  <2>6. asked' \subseteq Controls
    BY <2>1 DEF StartupInv, Ask
  <2> QED BY <2>2, <2>4, <2>5, <2>6 DEF StartupInv, BoundInv, ProbeInv, ProbeSucceeds
<1>7. CASE Redaction
  <2>1. PICK blocked \in {"", "blank_lines", "patterns", "broken"}, all \in Bools :
          /\ Resolve("redaction", ResolveRedaction(blocked, all), "routes")
          /\ Ask(blocked \in {"patterns", "broken"} \/ all \notin {"", "false"}, "redaction")
    BY <1>7 DEF Redaction
  <2>2. /\ step = "redaction" /\ step' \in {"exited", "routes"}
        /\ DOMAIN cfg' = SettingNames
        /\ \A t \in SettingNames \ {"redaction"} : cfg'[t] = cfg[t]
        /\ probe' = 9
    BY <2>1, ResolveFrame DEF StartupInv, ProbeInv
  <2>3. \A c : c # "redaction" => (c \in asked' <=> c \in asked)
    BY <2>1 DEF Ask
  <2>4. HeaderSettled' /\ AuthSettled' /\ LimitSettled' /\ KeySettled' /\ EnvironmentSettled' /\ NamespaceSettled'
    BY <2>2, <2>3, HeaderKept, AuthKept, LimitKept, KeyKept, EnvironmentKept, NamespaceKept DEF StartupInv, Past
  <2>5. RedactionSettled'
    <3>1. "redaction" \notin asked
      BY <2>2 DEF StartupInv, RedactionSettled
    <3>2. "redaction" \in asked' <=> (blocked \in {"patterns", "broken"} \/ all \notin {"", "false"})
      BY <2>1, <3>1 DEF Ask
    <3>3. /\ cfg'["redaction"] = ResolveRedaction(blocked, all)
          /\ step' = "routes" => ResolveRedaction(blocked, all) # Failed
      BY <2>1, ResolveFrame DEF StartupInv
    <3>4. CASE step' = "routes"
      <4>1. Enabled(cfg'["redaction"]) <=> "redaction" \in asked'
        BY <3>2, <3>3, <3>4, RedactionResolves
      <4> QED BY <3>4, <4>1 DEF RedactionSettled, Enabled
    <3>5. CASE step' = "exited"
      BY <3>5 DEF RedactionSettled
    <3> QED BY <2>2, <3>4, <3>5
  <2>6. asked' \subseteq Controls
    BY <2>1 DEF StartupInv, Ask
  <2> QED BY <2>2, <2>4, <2>5, <2>6 DEF StartupInv, BoundInv, ProbeInv, ProbeSucceeds
<1>8. CASE IPv6Prefix
  <2>1. PICK prefix, name :
          /\ Resolve("prefix", NewLimiter(prefix, name), "decodes")
          /\ Ask("limit" \in asked /\ name # "", "header")
    BY <1>8 DEF IPv6Prefix
  <2>2. /\ step = "prefix" /\ step' \in {"exited", "decodes"}
        /\ DOMAIN cfg' = SettingNames
        /\ \A t \in SettingNames \ {"prefix"} : cfg'[t] = cfg[t]
        /\ probe' = 9
    BY <2>1, ResolveFrame DEF StartupInv, ProbeInv
  <2>3. \A c : c # "header" => (c \in asked' <=> c \in asked)
    BY <2>1 DEF Ask
  <2>4. AuthSettled' /\ LimitSettled' /\ KeySettled' /\ EnvironmentSettled' /\ NamespaceSettled'
        /\ RedactionSettled'
    BY <2>2, <2>3, AuthKept, LimitKept, KeyKept, EnvironmentKept, NamespaceKept, RedactionKept
       DEF StartupInv, Past
  <2>5. HeaderSettled'
    <3>1. "header" \notin asked /\ (cfg.limit.rate # "zero" <=> "limit" \in asked)
      BY <2>2 DEF StartupInv, HeaderSettled, LimitSettled
    <3>2. "header" \in asked' <=> ("limit" \in asked /\ name # "")
      BY <2>1, <3>1 DEF Ask
    <3>3. /\ cfg'["prefix"] = NewLimiter(prefix, name)
          /\ step' = "decodes" => NewLimiter(prefix, name) # Failed
      BY <2>1, ResolveFrame DEF StartupInv
    <3>4. NewLimiter(prefix, name) # Failed =>
            (NewLimiter(prefix, name).header <=> cfg.limit.rate # "zero" /\ name # "")
      BY DEF NewLimiter
    <3> QED BY <2>2, <3>1, <3>2, <3>3, <3>4 DEF HeaderSettled
  <2>6. asked' \subseteq Controls
    BY <2>1 DEF StartupInv, Ask
  <2> QED BY <2>2, <2>4, <2>5, <2>6 DEF StartupInv, BoundInv, ProbeInv, ProbeSucceeds
<1>9. CASE RegisterRoutes
  <2>1. /\ step = "routes" /\ step' \in {"exited", "watch"}
        /\ step' = "watch" => chain' = Wrapped \cup Carried /\ routes' = Routes
        /\ UNCHANGED <<cfg, asked, watched, probe>>
    BY <1>9 DEF RegisterRoutes
  <2>2. Routes["ingest"] = Guards /\ Routes["healthz"] = {}
    BY DEF Routes
  <2>3. (Wrapped \cup Carried) \cup Guards = asked
    <3>1. /\ cfg.auth # "none" <=> "auth" \in asked
          /\ cfg.limit.rate # "zero" <=> "limit" \in asked
          /\ cfg.prefix.header <=> "header" \in asked
          /\ cfg.forward.key # "none" <=> "key" \in asked
      BY <2>1 DEF StartupInv, AuthSettled, LimitSettled, HeaderSettled, KeySettled
    <3>2. /\ cfg["environment"] # Off <=> "environment" \in asked
          /\ cfg["namespace"] # Off <=> "namespace" \in asked
          /\ Enabled(cfg.redaction) <=> "redaction" \in asked
      BY <2>1 DEF StartupInv, EnvironmentSettled, NamespaceSettled, RedactionSettled
    <3>3. asked \subseteq Controls /\ (Wrapped \cup Carried) \cup Guards \subseteq Controls
      BY DEF StartupInv, Wrapped, Carried, Guards
    <3>4. \A c \in Controls : c \in (Wrapped \cup Carried) \cup Guards <=> c \in asked
      BY <3>1, <3>2 DEF Wrapped, Carried, Guards
    <3> QED BY <3>3, <3>4
  <2>4. AuthSettled' /\ LimitSettled' /\ HeaderSettled' /\ KeySettled'
    BY <2>1, AuthKept, LimitKept, HeaderKept, KeyKept DEF StartupInv, Past
  <2>5. EnvironmentSettled' /\ NamespaceSettled' /\ RedactionSettled'
    BY <2>1, EnvironmentKept, NamespaceKept, RedactionKept DEF StartupInv, Past
  <2>6. BoundInv' /\ ProbeInv'
    BY <2>1 DEF StartupInv, BoundInv, ProbeInv, ProbeSucceeds
  <2> QED BY <2>1, <2>2, <2>3, <2>4, <2>5, <2>6 DEF StartupInv
<1>10. CASE Watch
  <2>1. /\ step = "watch" /\ step' = "listen" /\ watched' = Files /\ Files' = Files
        /\ UNCHANGED <<cfg, asked, chain, routes, probe>>
    BY <1>10 DEF Watch, Files
  <2>2. AuthSettled' /\ LimitSettled' /\ HeaderSettled' /\ KeySettled'
    BY <2>1, AuthKept, LimitKept, HeaderKept, KeyKept DEF StartupInv, Past
  <2>3. EnvironmentSettled' /\ NamespaceSettled' /\ RedactionSettled'
    BY <2>1, EnvironmentKept, NamespaceKept, RedactionKept DEF StartupInv, Past
  <2>4. BoundInv' /\ ProbeInv'
    BY <2>1 DEF StartupInv, BoundInv, ProbeInv, ProbeSucceeds
  <2> QED BY <2>1, <2>2, <2>3, <2>4 DEF StartupInv
<1>11. CASE Listen
  <2>1. /\ step = "listen" /\ step' \in {"exited", "serving"} /\ Files' = Files
        /\ UNCHANGED <<cfg, asked, chain, routes, watched, probe>>
    BY <1>11 DEF Listen, Files
  <2>2. AuthSettled' /\ LimitSettled' /\ HeaderSettled' /\ KeySettled'
    BY <2>1, AuthKept, LimitKept, HeaderKept, KeyKept DEF StartupInv, Past
  <2>3. EnvironmentSettled' /\ NamespaceSettled' /\ RedactionSettled'
    BY <2>1, EnvironmentKept, NamespaceKept, RedactionKept DEF StartupInv, Past
  <2>4. BoundInv'
    <3> SUFFICES ASSUME step' = "serving" PROVE BoundInv'
      BY DEF BoundInv
    <3>1. PICK addr : addr = ResolveAddr(cfg.addr)
      OBVIOUS
    <3>2. /\ AddrResolves(addr)
          /\ \E p \in (IF LookupPort[addr.port] = 0 THEN Ephemeral
                       ELSE {LookupPort[addr.port]}) :
                bound' = [host |-> addr.host, port |-> p]
      BY <1>11, <3>1 DEF Listen
    <3>3. /\ bound'.host = addr.host
          /\ IF LookupPort[addr.port] = 0 THEN bound'.port \in Ephemeral
             ELSE bound'.port = LookupPort[addr.port]
      BY <3>2
    <3>4. ResolveAddr(cfg.addr)' = addr
      BY <2>1, <3>1
    <3> QED BY <3>2, <3>3, <3>4 DEF BoundInv
  <2>5. ProbeInv'
    BY <2>1 DEF StartupInv, ProbeInv, ProbeSucceeds
  <2> QED BY <2>1, <2>2, <2>3, <2>4, <2>5 DEF StartupInv
<1>12. CASE Healthcheck
  <2>1. /\ step = "serving" /\ step' = step /\ Files' = Files
        /\ UNCHANGED <<cfg, asked, chain, routes, watched, bound>>
    BY <1>12 DEF Healthcheck, Files
  <2>2. PICK addr : addr = ResolveAddr(cfg.addr)
    OBVIOUS
  <2>3. PICK n : n = LookupPort[addr.port]
    OBVIOUS
  <2>4. PICK reached \in (IF AddrResolves(addr) THEN Reached(HealthzURL(addr)) ELSE {FALSE}),
             status \in Answers(routes["healthz"]) :
          probe' = IF reached /\ status = 200 THEN 0 ELSE 1
    BY <1>12, <2>2 DEF Healthcheck
  <2>5. status = 200
    BY <2>1, <2>4 DEF StartupInv, Answers
  <2>6. /\ AddrResolves(addr) /\ bound.host = addr.host
        /\ n = 0 => bound.port \in Ephemeral
        /\ n # 0 => bound.port = n
    BY <2>1, <2>2, <2>3 DEF StartupInv, BoundInv
  <2>7. /\ HealthzURL(addr).port = n
        /\ HealthzURL(addr).host = IF addr.host \in Unspecified THEN "127.0.0.1" ELSE addr.host
        /\ "127.0.0.1" \notin Unspecified
    BY <2>3, HostsAssumption DEF HealthzURL
  <2>8. reached <=> n # 0
    <3>1. reached \in Reached(HealthzURL(addr))
      BY <2>4, <2>6
    <3>2. CASE n = 0
      <4>1. bound.port # n
        BY <2>6, <3>2, StartupAssumption
      <4> QED BY <2>7, <3>1, <3>2, <4>1 DEF Reached
    <3>3. CASE n # 0
      <4>1. Reached(HealthzURL(addr)) = {TRUE}
        <5>1. /\ HealthzURL(addr).port = bound.port /\ HealthzURL(addr).host \notin Unspecified
              /\ \/ HealthzURL(addr).host = bound.host
                 \/ HealthzURL(addr).host = "127.0.0.1" /\ bound.host \in Unspecified
          BY <2>6, <2>7, <3>3
        <5> QED BY <5>1 DEF Reached
      <4> QED BY <3>1, <3>3, <4>1
    <3> QED BY <3>2, <3>3
  <2>9. probe' = 0 <=> n # 0
    BY <2>4, <2>5, <2>8
  <2>10. ProbeInv' /\ BoundInv'
    <3>1. LookupPort[ResolveAddr(cfg.addr).port]' = n
      BY <2>1, <2>2, <2>3
    <3>2. ProbeInv'
      BY <2>1, <2>9, <3>1 DEF ProbeInv, ProbeSucceeds
    <3> QED BY <2>1, <3>2 DEF StartupInv, BoundInv
  <2>11. AuthSettled' /\ LimitSettled' /\ HeaderSettled' /\ KeySettled'
    BY <2>1, AuthKept, LimitKept, HeaderKept, KeyKept DEF StartupInv, Past
  <2>12. EnvironmentSettled' /\ NamespaceSettled' /\ RedactionSettled'
    BY <2>1, EnvironmentKept, NamespaceKept, RedactionKept DEF StartupInv, Past
  <2> QED BY <2>1, <2>10, <2>11, <2>12 DEF StartupInv
<1> QED BY <1>1, <1>2, <1>3, <1>4, <1>5, <1>6, <1>7, <1>8, <1>9, <1>10, <1>11, <1>12 DEF Startup

-----------------------------------------------------------------------------
(* The payload: what the processors make of its fields.                    *)

PartsOut(m)   == IF Enabled(cfg.redaction) THEN RedactSites(m) ELSE m.parts
UnknownOut(m) == IF Enabled(cfg.redaction) THEN {} ELSE m.unknown
NsOut(ns)     == IF cfg.namespace # Off THEN StampedNamespace(ns) ELSE ns
EnvOut(env)   == IF cfg.environment # Off THEN StampedEnvironment(env) ELSE env

\* The parts that Redaction replaces.
Replaced(m) == IF Enabled(cfg.redaction) THEN RedactedPositions(m) ELSE {}

PastHandler   == {"redaction", "namespace", "environment", "sink"}
PastRedaction == {"namespace", "environment", "sink"}
PastNamespace == {"environment", "sink"}

\* Where the payload is decides what became of it, and what was counted.
PayloadInv ==
    /\ stage \in PastHandler \cup {"none", "handler", "rejected"}
    /\ stage # "none" => step = "serving" /\ sent \in Payload
    /\ stage \in {"none", "handler", "redaction"} => redacted = 0
    /\ stage \in {"handler", "redaction"} => msg = sent
    /\ stage \in PastHandler => Valid(sent)
    /\ stage = "namespace" =>
          msg = [sent EXCEPT !.parts = PartsOut(sent), !.unknown = UnknownOut(sent)]
    /\ stage = "environment" =>
          msg = [sent EXCEPT !.parts = PartsOut(sent), !.unknown = UnknownOut(sent),
                             !.resource.ns = NsOut(@)]
    /\ stage = "sink" =>
          msg = [sent EXCEPT !.parts = PartsOut(sent), !.unknown = UnknownOut(sent),
                             !.resource.ns = NsOut(@), !.resource.env = EnvOut(@)]
    /\ stage \in PastRedaction => redacted = Cardinality(Replaced(sent))
    /\ stage \in PastNamespace /\ cfg.namespace # Off /\ NamespaceDiffers(sent.resource.ns)
          => "namespace" \in mismatch
    /\ stage = "sink" /\ cfg.environment # Off /\ EnvironmentDiffers(sent.resource.env)
          => "environment" \in mismatch

ServiceInv == StartupInv /\ PayloadInv

\* Every message of a payload is reached.
LEMMA NothingUnknown ==
  ASSUME NEW u \in SUBSET DOMAIN Messages PROVE DropUnknown(u) = {}
  BY PayloadsAssumption DEF DropUnknown, Shapes

\* The settings, and what is computed from them, stay.
LEMMA SettingsKept ==
  ASSUME UNCHANGED <<cfg, sent>>
  PROVE  /\ Valid(sent)' <=> Valid(sent)
         /\ PartsOut(sent)' = PartsOut(sent) /\ UnknownOut(sent)' = UnknownOut(sent)
         /\ NsOut(sent.resource.ns)' = NsOut(sent.resource.ns)
         /\ EnvOut(sent.resource.env)' = EnvOut(sent.resource.env)
         /\ Replaced(sent)' = Replaced(sent)
         /\ NamespaceDiffers(sent.resource.ns)' <=> NamespaceDiffers(sent.resource.ns)
         /\ EnvironmentDiffers(sent.resource.env)' <=> EnvironmentDiffers(sent.resource.env)
<1>1. Valid(sent)' <=> Valid(sent)
  BY DEF Valid, ValidResource, ValidChunk
<1>2. RedactedPositions(sent)' = RedactedPositions(sent)
  BY DEF RedactedPositions, Blocks
<1>3. Replaced(sent)' = Replaced(sent)
  BY <1>2 DEF Replaced
<1>4. PartsOut(sent)' = PartsOut(sent) /\ UnknownOut(sent)' = UnknownOut(sent)
  BY <1>2 DEF PartsOut, UnknownOut, RedactSites
<1>5. /\ NsOut(sent.resource.ns)' = NsOut(sent.resource.ns)
      /\ EnvOut(sent.resource.env)' = EnvOut(sent.resource.env)
  BY DEF NsOut, EnvOut, StampedNamespace, StampedEnvironment
<1>6. /\ NamespaceDiffers(sent.resource.ns)' <=> NamespaceDiffers(sent.resource.ns)
      /\ EnvironmentDiffers(sent.resource.env)' <=> EnvironmentDiffers(sent.resource.env)
  BY DEF NamespaceDiffers, EnvironmentDiffers
<1> QED BY <1>1, <1>3, <1>4, <1>5, <1>6

\* The payload after Redaction, and after Namespace.
Redacted(m, parts, unknown) == [m EXCEPT !.parts = parts, !.unknown = unknown]
Named(m, parts, unknown, ns) ==
    [m EXCEPT !.parts = parts, !.unknown = unknown, !.resource.ns = ns]

LEMMA NamespaceWritten ==
  ASSUME NEW m \in Payload, NEW parts, NEW unknown, NEW ns
  PROVE  /\ Redacted(m, parts, unknown).resource = m.resource
         /\ [Redacted(m, parts, unknown) EXCEPT !.resource.ns = ns] = Named(m, parts, unknown, ns)
         /\ Named(m, parts, unknown, m.resource.ns) = Redacted(m, parts, unknown)
  BY DEF Payload, Resource, Redacted, Named

LEMMA ProcessStep ==
  ASSUME PayloadInv, Process, UNCHANGED step PROVE PayloadInv'
<1> USE DEF PastHandler, PastRedaction, PastNamespace
<1>1. UNCHANGED <<cfg, sent>>
  BY DEF Process, Validate, Redact, Namespace, Environment
<1>2. CASE Validate
  <2>1. /\ stage = "handler" /\ stage' \in {"redaction", "rejected"}
        /\ stage' = "redaction" => Valid(sent)
        /\ UNCHANGED <<msg, redacted>>
    BY <1>2 DEF Validate, PayloadInv
  <2> QED BY <1>1, <2>1, SettingsKept DEF PayloadInv
<1>3. CASE Redact
  <2>1. stage = "redaction" /\ stage' = "namespace" /\ msg = sent /\ sent \in Payload
    BY <1>3 DEF Redact, PayloadInv
  <2>2. msg' = [sent EXCEPT !.parts = PartsOut(sent), !.unknown = UnknownOut(sent)]
    <3>1. sent.unknown \in SUBSET DOMAIN Messages
      BY <2>1 DEF Payload
    <3>2. CASE Enabled(cfg.redaction)
      BY <1>3, <2>1, <3>1, <3>2, NothingUnknown DEF Redact, PartsOut, UnknownOut
    <3>3. CASE ~ Enabled(cfg.redaction)
      BY <1>3, <2>1, <3>3 DEF Redact, PartsOut, UnknownOut, Payload
    <3> QED BY <3>2, <3>3
  <2>3. redacted' = Cardinality(Replaced(sent))
    <3>1. CASE Enabled(cfg.redaction)
      <4>1. IsFiniteSet(RedactedPositions(sent))
        BY PayloadsAssumption, FS_Subset DEF RedactedPositions
      <4>2. Cardinality(RedactedPositions(sent)) \in Nat
        BY <4>1, FS_CardinalityType
      <4> QED BY <1>3, <2>1, <3>1, <4>2 DEF Redact, Replaced, PayloadInv
    <3>2. CASE ~ Enabled(cfg.redaction)
      BY <1>3, <2>1, <3>2, FS_EmptySet DEF Redact, Replaced, PayloadInv
    <3> QED BY <3>1, <3>2
  <2> QED BY <1>1, <2>1, <2>2, <2>3, SettingsKept DEF PayloadInv
<1>4. CASE Namespace
  <2>1. stage = "namespace" /\ stage' = "environment" /\ sent \in Payload
    BY <1>4 DEF Namespace, PayloadInv
  <2>2. msg = [sent EXCEPT !.parts = PartsOut(sent), !.unknown = UnknownOut(sent)]
    BY <2>1 DEF PayloadInv
  <2>3. msg' = [sent EXCEPT !.parts = PartsOut(sent), !.unknown = UnknownOut(sent),
                            !.resource.ns = NsOut(@)]
    <3>1. PICK parts, unknown, ns :
            /\ parts = PartsOut(sent) /\ unknown = UnknownOut(sent)
            /\ ns = NsOut(sent.resource.ns)
      OBVIOUS
    <3>2. msg = Redacted(sent, parts, unknown)
      BY <2>2, <3>1 DEF Redacted
    <3>3. msg.resource.ns = sent.resource.ns
      BY <2>1, <3>2, NamespaceWritten
    <3>4. msg' = Named(sent, parts, unknown, ns)
      <4>1. CASE cfg.namespace # Off
        <5>1. msg' = [msg EXCEPT !.resource.ns = ns]
          BY <1>4, <3>1, <3>3, <4>1 DEF Namespace, NsOut
        <5> QED BY <2>1, <3>2, <5>1, NamespaceWritten
      <4>2. CASE cfg.namespace = Off
        <5>1. msg' = msg /\ ns = sent.resource.ns
          BY <1>4, <3>1, <4>2 DEF Namespace, NsOut
        <5> QED BY <2>1, <3>2, <5>1, NamespaceWritten
      <4> QED BY <4>1, <4>2
    <3> QED BY <3>1, <3>4 DEF Named
  <2>4. msg.resource = sent.resource
    <3>1. msg = Redacted(sent, PartsOut(sent), UnknownOut(sent))
      BY <2>2 DEF Redacted
    <3> QED BY <2>1, <3>1, NamespaceWritten
  <2>5. cfg.namespace # Off /\ NamespaceDiffers(sent.resource.ns) => "namespace" \in mismatch'
    BY <1>4, <2>4 DEF Namespace
  <2>6. redacted' = redacted
    BY <1>4 DEF Namespace
  <2> QED BY <1>1, <2>1, <2>3, <2>5, <2>6, SettingsKept DEF PayloadInv
<1>5. CASE Environment
  <2>1. stage = "environment" /\ stage' = "sink" /\ sent \in Payload
    BY <1>5 DEF Environment, PayloadInv
  <2>2. msg = [sent EXCEPT !.parts = PartsOut(sent), !.unknown = UnknownOut(sent),
                           !.resource.ns = NsOut(@)]
    BY <2>1 DEF PayloadInv
  <2>3. msg' = [sent EXCEPT !.parts = PartsOut(sent), !.unknown = UnknownOut(sent),
                            !.resource.ns = NsOut(@), !.resource.env = EnvOut(@)]
    BY <1>5, <2>1, <2>2 DEF Environment, EnvOut, Payload, Resource
  <2>4. msg.resource.env = sent.resource.env
    BY <2>1, <2>2 DEF Payload, Resource
  <2>5. ASSUME cfg.environment # Off, EnvironmentDiffers(sent.resource.env)
        PROVE  "environment" \in mismatch'
    <3>1. EnvironmentDiffers(msg.resource.env)
      BY <2>4, <2>5
    <3> QED BY <1>5, <2>5, <3>1 DEF Environment
  <2>6. redacted' = redacted /\ ("namespace" \in mismatch => "namespace" \in mismatch')
    BY <1>5 DEF Environment
  <2> QED BY <1>1, <2>1, <2>3, <2>5, <2>6, SettingsKept DEF PayloadInv
<1> QED BY <1>2, <1>3, <1>4, <1>5 DEF Process

LEMMA ServiceInit == Init => ServiceInv
<1>1. ProcessorsInit => PayloadInv
  BY DEF ProcessorsInit, PayloadInv, PastHandler, PastRedaction, PastNamespace
<1> QED BY <1>1, StartupStart DEF Init, ServiceInv

LEMMA StartupInvKept == ASSUME StartupInv, UNCHANGED startupVars PROVE StartupInv'
<1>1. UNCHANGED <<step, cfg, asked, chain, routes, watched, bound, probe>>
  BY DEF startupVars
<1>2. AuthSettled' /\ LimitSettled' /\ HeaderSettled' /\ KeySettled'
  BY <1>1 DEF StartupInv, AuthSettled, LimitSettled, HeaderSettled, KeySettled, Settled
<1>3. EnvironmentSettled' /\ NamespaceSettled' /\ RedactionSettled'
  BY <1>1 DEF StartupInv, EnvironmentSettled, NamespaceSettled, RedactionSettled,
              Settled, Enabled
<1>4. BoundInv' /\ ProbeInv'
  BY <1>1 DEF StartupInv, BoundInv, ProbeInv, ProbeSucceeds
<1> QED BY <1>1, <1>2, <1>3, <1>4 DEF StartupInv, Files

LEMMA ServiceStep == ServiceInv /\ [Next]_vars => ServiceInv'
<1> SUFFICES ASSUME ServiceInv, [Next]_vars PROVE ServiceInv'
  OBVIOUS
<1> USE DEF ServiceInv
<1>1. CASE Start
  <2>1. stage = "none" /\ UNCHANGED processorVars
    BY <1>1 DEF Start
  <2>2. PayloadInv'
    BY <2>1 DEF PayloadInv, processorVars, PastHandler, PastRedaction, PastNamespace
  <2> QED BY <1>1, <2>2, StartupStep DEF Start
<1>2. CASE Send
  <2>1. PICK m \in Decoded : Receive(m)
    BY <1>2 DEF Send
  <2>2. m \in Payload /\ step' = "serving"
    BY <1>2, PayloadsAssumption DEF Send, startupVars
  <2>3. PayloadInv'
    BY <2>1, <2>2 DEF Receive, PayloadInv, PastHandler, PastRedaction, PastNamespace
  <2> QED BY <1>2, <2>3, StartupInvKept DEF Send
<1>3. CASE Handle
  BY <1>3, ProcessStep, StartupInvKept DEF Handle, startupVars
<1>4. CASE UNCHANGED vars
  <2>1. UNCHANGED <<cfg, step, stage, sent, msg, mismatch, redacted>>
    BY <1>4 DEF vars, startupVars, processorVars
  <2>2. PayloadInv'
    BY <2>1, SettingsKept DEF PayloadInv
  <2> QED BY <1>4, <2>2, StartupInvKept DEF vars
<1> QED BY <1>1, <1>2, <1>3, <1>4 DEF Next, Ended

LEMMA ServiceInvariance == Spec => []ServiceInv
  BY ServiceInit, ServiceStep, PTL DEF Spec

-----------------------------------------------------------------------------
(* The theorems.                                                           *)

\* main, for every environment an operator can leave it: a collector that
\* serves has exactly the controls on that were asked for, an enabled
\* limiter lets somebody through, and every token file in use is watched.
THEOREM OnExactlyAsAskedAlways == Spec => []OnExactlyAsAsked
<1>1. ServiceInv => OnExactlyAsAsked
  <2> SUFFICES ASSUME StartupInv, step = "serving"
               PROVE  /\ chain \cup routes["ingest"] = asked
                      /\ cfg.limit.rate = "positive" => cfg.limit.burst = "positive"
                      /\ cfg.auth = "file" => "auth" \in watched
                      /\ cfg.forward.key = "file" => "forward" \in watched
    BY DEF ServiceInv, OnExactlyAsAsked
  <2>1. chain \cup routes["ingest"] = asked /\ watched = Files
    BY DEF StartupInv, FromWatch
  <2>2. cfg.limit.rate = "positive" => cfg.limit.burst = "positive"
    BY DEF StartupInv, LimitSettled, FromPrefix, FromDecodes, FromForward, FromEnvironment,
           FromNamespace, FromRedaction, FromRoutes, FromWatch
  <2>3. cfg.forward.key = "file" => cfg.forward.url # ""
    BY DEF StartupInv, KeySettled, FromEnvironment, FromNamespace, FromRedaction,
           FromRoutes, FromWatch
  <2> QED BY <2>1, <2>2, <2>3 DEF Files
<1> QED BY <1>1, ServiceInvariance, PTL

\* The healthcheck command finds the collector it runs beside, for every
\* listen address with a port of its own, whatever a platform makes of a dial
\* to an unspecified address and however the ingest routes are guarded; where
\* the port is the kernel's to pick, it fails.
THEOREM ProbeSucceedsAlways == Spec => []ProbeSucceeds
<1>1. ServiceInv => ProbeSucceeds
  BY DEF ServiceInv, StartupInv, ProbeInv
<1> QED BY <1>1, ServiceInvariance, PTL

\* The stamps in force at the sink.
LEMMA StampsInForce ==
  ASSUME ServiceInv, stage = "sink"
  PROVE  /\ sent \in Payload /\ Valid(sent)
         /\ GoodStamp(cfg.environment) /\ GoodStamp(cfg.namespace)
         /\ ~ IsDotSegment(cfg.namespace.value)
<1>1. step = "serving"
  BY DEF ServiceInv, PayloadInv
<1> QED BY <1>1 DEF ServiceInv, PayloadInv, StartupInv, EnvironmentSettled, NamespaceSettled,
     PastHandler, FromNamespace, FromRedaction, FromRoutes, FromWatch

\* The fields of the payload at the sink.
LEMMA AtSink ==
  ASSUME ServiceInv, stage = "sink"
  PROVE  /\ sent \in Payload
         /\ msg = [sent EXCEPT !.parts = PartsOut(sent), !.unknown = UnknownOut(sent),
                               !.resource.ns = NsOut(@), !.resource.env = EnvOut(@)]
         /\ msg.kind = sent.kind
         /\ msg.parts = PartsOut(sent) /\ msg.unknown = UnknownOut(sent)
         /\ msg.resource.ns = NsOut(sent.resource.ns)
         /\ msg.resource.env = EnvOut(sent.resource.env)
         /\ msg.resource.present = sent.resource.present
         /\ msg.resource.name = sent.resource.name
         /\ msg.resource.id = sent.resource.id /\ msg.resource.run = sent.resource.run
         /\ msg.scannedAt = sent.scannedAt /\ msg.chunkCount = sent.chunkCount
         /\ msg.chunkIndex = sent.chunkIndex
<1>1. /\ sent \in Payload
      /\ msg = [sent EXCEPT !.parts = PartsOut(sent), !.unknown = UnknownOut(sent),
                            !.resource.ns = NsOut(@), !.resource.env = EnvOut(@)]
  BY DEF ServiceInv, PayloadInv
<1> QED BY <1>1 DEF Payload, Resource

LEMMA GoodText ==
  ASSUME NEW c, GoodStamp(c)
  PROVE  c.value \in Text /\ ValidString(c.value)
<1>1. Empty \in Text /\ ValidString(Empty)
  BY TextsAssumption DEF Empty, Text, ValidString
<1>2. CASE c = Off
  BY <1>1, <1>2 DEF Off
<1>3. CASE c # Off
  BY <1>3 DEF GoodStamp
<1> QED BY <1>2, <1>3

\* What reaches the sink passes the handler's rules also after the stamps,
\* and can be encoded, for every payload and every pair of stamps that main
\* lets through.
THEOREM SinkCanKeyAlways == Spec => []SinkCanKey
<1>1. ServiceInv => SinkCanKey
  <2> SUFFICES ASSUME ServiceInv, stage = "sink"
               PROVE  Valid(msg) /\ ValidString(msg.resource.ns)
                                 /\ ValidString(msg.resource.env)
    BY DEF SinkCanKey
  <2>1. sent \in Payload /\ Valid(sent)
    BY StampsInForce
  <2>2. /\ sent.resource.ns \in Text /\ ValidString(sent.resource.ns)
        /\ sent.resource.env \in Text /\ ValidString(sent.resource.env)
    BY <2>1 DEF Payload, Resource, AgentText
  <2>3. /\ cfg.namespace.value \in Text /\ ValidString(cfg.namespace.value)
        /\ cfg.environment.value \in Text /\ ValidString(cfg.environment.value)
    BY StampsInForce, GoodText
  <2>4. msg.resource.ns \in {sent.resource.ns, TrimSpace(cfg.namespace.value)}
    BY AtSink DEF NsOut, StampedNamespace
  <2>5. msg.resource.env \in {sent.resource.env, cfg.environment.value}
    BY AtSink DEF EnvOut, StampedEnvironment
  <2>6. ~ IsDotSegment(TrimSpace(sent.resource.ns)) /\ ~ IsDotSegment(TrimSpace(msg.resource.ns))
    <3>1. ~ IsDotSegment(cfg.namespace.value) /\ ~ IsDotSegment(TrimSpace(sent.resource.ns))
      BY <2>1, StampsInForce DEF Valid, ValidResource
    <3>2. TrimSpace(TrimSpace(cfg.namespace.value)).core = cfg.namespace.value.core
      BY <2>3, TrimmedText
    <3> QED BY <2>4, <3>1, <3>2 DEF IsDotSegment
  <2>7. ValidString(msg.resource.ns)
    BY <2>2, <2>3, <2>4, TrimmedText DEF ValidString
  <2>8. ValidString(msg.resource.env)
    BY <2>2, <2>3, <2>5
  <2>9. Valid(msg)
    BY <2>1, <2>6, AtSink DEF Valid, ValidResource, ValidChunk
  <2> QED BY <2>7, <2>8, <2>9
<1> QED BY <1>1, ServiceInvariance, PTL

\* What Redaction does to each part.
LEMMA PartOut ==
  ASSUME NEW m \in Payload, NEW p \in Positions
  PROVE  IF p \in Replaced(m)
         THEN /\ PartsOut(m)[p].kind = m.parts[p].kind
              /\ PartsOut(m)[p].text = RedactedText
         ELSE PartsOut(m)[p] = m.parts[p]
<1>1. m.parts[p] \in Part
  BY DEF Payload
<1>2. CASE Enabled(cfg.redaction)
  BY <1>1, <1>2 DEF PartsOut, Replaced, RedactSites, Part
<1>3. CASE ~ Enabled(cfg.redaction)
  BY <1>3 DEF PartsOut, Replaced
<1> QED BY <1>2, <1>3

\* With redaction on, no blocked literal and no unknown field leaves, for
\* payloads of every number of parts and messages, kinds of part included
\* that this collector does not know.
THEOREM NothingBlockedLeavesAlways == Spec => []NothingBlockedLeaves
<1>1. ServiceInv => NothingBlockedLeaves
  <2> SUFFICES ASSUME ServiceInv, stage = "sink", Enabled(cfg.redaction)
               PROVE  /\ msg.unknown = {}
                      /\ msg.kind # "deltas" =>
                            \A p \in Positions :
                                \/ msg.parts[p].kind \in {"CODE", "PLACEHOLDER"}
                                \/ ~ Blocks(sent.parts[p].text)
                                \/ msg.parts[p].text = RedactedText
    BY DEF NothingBlockedLeaves
  <2>1. msg.unknown = {}
    BY AtSink DEF UnknownOut
  <2>2. ASSUME msg.kind # "deltas", NEW p \in Positions
        PROVE  \/ msg.parts[p].kind \in {"CODE", "PLACEHOLDER"}
               \/ ~ Blocks(sent.parts[p].text)
               \/ msg.parts[p].text = RedactedText
    <3>1. sent \in Payload /\ msg.parts = PartsOut(sent) /\ sent.kind # "deltas"
      BY <2>2, AtSink
    <3>2. CASE p \in Replaced(sent)
      BY <3>1, <3>2, PartOut
    <3>3. CASE p \notin Replaced(sent)
      <4>1. ~ IsLiteral(sent.parts[p]) \/ ~ Blocks(sent.parts[p].text)
        BY <3>1, <3>3 DEF Replaced, RedactedPositions
      <4>2. msg.parts[p] = sent.parts[p]
        BY <3>1, <3>3, PartOut
      <4> QED BY <4>1, <4>2 DEF IsLiteral
    <3> QED BY <3>2, <3>3
  <2> QED BY <2>1, <2>2
<1> QED BY <1>1, ServiceInvariance, PTL

\* Nothing is rewritten in silence: the count of redacted literals covers
\* every replaced part and nothing that does not read as redacted, the
\* stamps overwrite only under upsert and with a mismatch counted, and the
\* rest of the payload is as the agent sent it.
THEOREM RewritesAreCountedAlways == Spec => []RewritesAreCounted
<1>1. ServiceInv => RewritesAreCounted
  <2> SUFFICES ASSUME ServiceInv, stage = "sink"
               PROVE  RewritesAreCounted
    BY DEF RewritesAreCounted
  <2>1. sent \in Payload /\ msg.parts = PartsOut(sent)
    BY AtSink
  <2>2. redacted = Cardinality(Replaced(sent))
    BY DEF ServiceInv, PayloadInv, PastRedaction
  <2>3. Replaced(sent) \subseteq Positions
    BY DEF Replaced, RedactedPositions
  <2>4. Cardinality({p \in Positions : msg.parts[p] # sent.parts[p]}) <= redacted
    <3>1. {p \in Positions : msg.parts[p] # sent.parts[p]} \subseteq Replaced(sent)
      BY <2>1, PartOut
    <3>2. IsFiniteSet(Replaced(sent))
      BY <2>3, PayloadsAssumption, FS_Subset
    <3> QED BY <2>2, <3>1, <3>2, FS_Subset
  <2>5. redacted <= Cardinality({p \in Positions : msg.parts[p].text = RedactedText})
    <3>1. Replaced(sent) \subseteq {p \in Positions : msg.parts[p].text = RedactedText}
      BY <2>1, <2>3, PartOut
    <3>2. IsFiniteSet({p \in Positions : msg.parts[p].text = RedactedText})
      BY PayloadsAssumption, FS_Subset
    <3> QED BY <2>2, <3>1, <3>2, FS_Subset
  <2>6. ASSUME TrimSpace(sent.resource.ns) # Empty, msg.resource.ns # sent.resource.ns
        PROVE  "namespace" \in mismatch /\ cfg.namespace.action = "upsert"
    <3>1. cfg.namespace # Off /\ msg.resource.ns = StampedNamespace(sent.resource.ns)
      BY <2>6, AtSink DEF NsOut
    <3>2. NamespaceDiffers(sent.resource.ns) /\ cfg.namespace.action = "upsert"
      BY <2>6, <3>1 DEF StampedNamespace, NamespaceDiffers
    <3> QED BY <3>1, <3>2 DEF ServiceInv, PayloadInv, PastNamespace
  <2>7. ASSUME sent.resource.env # Empty, msg.resource.env # sent.resource.env
        PROVE  "environment" \in mismatch /\ cfg.environment.action = "upsert"
    <3>1. cfg.environment # Off /\ msg.resource.env = StampedEnvironment(sent.resource.env)
      BY <2>7, AtSink DEF EnvOut
    <3>2. EnvironmentDiffers(sent.resource.env) /\ cfg.environment.action = "upsert"
      BY <2>7, <3>1 DEF StampedEnvironment, EnvironmentDiffers
    <3> QED BY <3>1, <3>2 DEF ServiceInv, PayloadInv
  <2>8. ASSUME NEW p \in Positions
        PROVE  /\ msg.parts[p].kind = sent.parts[p].kind
               /\ ~ IsLiteral(sent.parts[p]) => msg.parts[p] = sent.parts[p]
    <3>1. p \in Replaced(sent) => IsLiteral(sent.parts[p])
      BY DEF Replaced, RedactedPositions
    <3> QED BY <2>1, <3>1, PartOut
  <2>9. msg = [sent EXCEPT !.parts = msg.parts, !.unknown = msg.unknown,
                           !.resource.ns = msg.resource.ns,
                           !.resource.env = msg.resource.env]
    BY AtSink DEF Payload, Resource
  <2> QED BY <2>4, <2>5, <2>6, <2>7, <2>8, <2>9 DEF RewritesAreCounted
<1> QED BY <1>1, ServiceInvariance, PTL

\* instanceOf and shardKey after the stamp: payloads that name one service
\* instance, in whatever spelling, go to one shard, for every stamp and all
\* texts.
THEOREM OneServiceOneShardAlways == Spec => []OneServiceOneShard
<1>1. ServiceInv => OneServiceOneShard
  <2> SUFFICES ASSUME ServiceInv, stage = "sink", NEW ns \in AgentText, NEW name \in AgentText,
                      NEW other, other = [sent.resource EXCEPT !.ns = ns, !.name = name],
                      InstanceOf(other) = InstanceOf(sent.resource)
               PROVE  LET there == IF cfg.namespace = Off THEN other
                                   ELSE [other EXCEPT !.ns = StampedNamespace(@)]
                      IN  InstanceOf(there) = InstanceOf(msg.resource)
    BY DEF OneServiceOneShard
  <2>1. /\ TrimSpace(ns) = TrimSpace(sent.resource.ns)
        /\ TrimSpace(name) = TrimSpace(sent.resource.name)
        /\ other.ns = ns /\ other.name = name /\ other.id = sent.resource.id
    BY AtSink DEF InstanceOf, Payload, Resource
  <2>2. CASE cfg.namespace = Off
    BY <2>1, <2>2, AtSink DEF InstanceOf, NsOut
  <2>3. CASE cfg.namespace # Off
    <3>1. msg.resource.ns = StampedNamespace(sent.resource.ns)
      BY <2>3, AtSink DEF NsOut
    <3>2. TrimSpace(StampedNamespace(ns)) = TrimSpace(StampedNamespace(sent.resource.ns))
      BY <2>1 DEF StampedNamespace
    <3>3. [other EXCEPT !.ns = StampedNamespace(@)].ns = StampedNamespace(ns)
      BY <2>1, AtSink DEF Payload, Resource
    <3>4. [other EXCEPT !.ns = StampedNamespace(@)].name = name
      BY <2>1
    <3>5. [other EXCEPT !.ns = StampedNamespace(@)].id = sent.resource.id
      BY <2>1
    <3> QED BY <2>1, <2>3, <3>1, <3>2, <3>3, <3>4, <3>5, AtSink DEF InstanceOf
  <2> QED BY <2>2, <2>3
<1> QED BY <1>1, ServiceInvariance, PTL
=============================================================================
