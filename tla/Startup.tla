------------------------------ MODULE Startup ------------------------------
(***************************************************************************)
(* cmd/otherlode-collector: main from its first line to the listener, and  *)
(* registerRoutes.  main resolves one setting after the other and exits at *)
(* the first that fails, then builds the sink, wraps it in the processors  *)
(* and the routes in the middleware, and starts the file watchers.         *)
(*                                                                         *)
(* The environment is whatever the operator left there: each step picks    *)
(* the raw values of the variables it reads.                               *)
(***************************************************************************)
EXTENDS Settings

CONSTANTS
    EnvTexts,  \* what the operator may write for a stamp
    Ephemeral  \* the ports the kernel may pick for a listener on port 0

ASSUME StartupAssumption ==
    /\ EnvTexts \subseteq Text
    /\ Ephemeral \subseteq Nat \ {0}

VARIABLES
    step,     \* the setting main resolves next
    asked,    \* history: the controls the operator's variables call for, of
              \* auth, limit, header, key, environment, namespace and redaction
    chain,    \* what registerRoutes has given the sink and the limiter
    routes,   \* the middleware in front of each route
    watched,  \* the token files with a Watch goroutine
    bound,    \* the host and port that the listener has
    probe     \* the exit code of the healthcheck command, 9 before it ran

startupVars == <<step, cfg, asked, chain, routes, watched, bound, probe>>

SettingNames ==
    {"level", "addr", "auth", "limit", "prefix", "decodes", "forward",
     "environment", "namespace", "redaction"}

StartupInit ==
    /\ step = "level"
    /\ cfg = [s \in SettingNames |-> Failed]
    /\ asked = {}
    /\ chain = {}
    /\ routes = << >>
    /\ watched = {}
    /\ bound = << >>
    /\ probe = 9

\* main resolves setting s as v, and exits if that failed.
Resolve(s, v, next) ==
    /\ step = s
    /\ step' = IF v = Failed THEN "exited" ELSE next
    /\ cfg' = [cfg EXCEPT ![s] = v]
    /\ UNCHANGED <<chain, routes, watched, bound, probe>>

Ask(condition, control) ==
    asked' = IF condition THEN asked \cup {control} ELSE asked

LogLevel ==
    \E raw \in {"", "level", "garbage"} :
        Resolve("level", ResolveLogLevel(raw), "addr") /\ UNCHANGED asked

Addr ==
    \E raw \in Addrs :
        Resolve("addr", raw, "auth") /\ UNCHANGED asked

AuthTokens ==
    \E raw \in {"", "tokens", "empty_entry"}, file \in {"", "usable", "unusable"},
       noAuth \in Bools :
        /\ Resolve("auth", ResolveAuthTokens(raw, file, noAuth), "limit")
        /\ Ask(raw # "" \/ file # "" \/ noAuth # "true", "auth")

RateLimit ==
    \E rps \in Numbers \cup {"nonfinite"}, burst \in Numbers :
        /\ Resolve("limit", ResolveRateLimit(rps, burst), "prefix")
        /\ Ask(rps # "zero", "limit")

\* The limiter, if the rate calls for one, is created here; whether it reads
\* the client's address from a header.
NewLimiter(prefix, name) ==
    IF ResolveIPv6Prefix(prefix) = Failed THEN Failed
    ELSE [header |-> cfg.limit.rate # "zero" /\ name # ""]

IPv6Prefix ==
    \E prefix \in {"", "1_to_128", "outside", "garbage"}, name \in {"", "name"} :
        /\ Resolve("prefix", NewLimiter(prefix, name), "decodes")
        /\ Ask("limit" \in asked /\ name # "", "header")

MaxDecodes ==
    \E raw \in Numbers :
        /\ Resolve("decodes", ResolveMaxConcurrentDecodes(raw), "forward")
        /\ UNCHANGED asked

Forward ==
    \E url \in {"", "good", "bad"}, raw \in {"", "spaces", "key", "control"},
       file \in {"", "usable", "unusable"}, tuning \in Numbers :
        /\ Resolve("forward", ResolveForwardConfig(url, raw, file, tuning),
                   "environment")
        /\ Ask(raw # "" \/ file # "", "key")

ActionTexts == {"", "insert", "upsert", "garbage"}

EnvironmentEnv ==
    \E value \in EnvTexts, raw \in ActionTexts :
        /\ Resolve("environment", ResolveEnvironment(value, raw), "namespace")
        /\ Ask(TrimSpace(value) # Empty \/ raw # "", "environment")

NamespaceEnv ==
    \E value \in EnvTexts, raw \in ActionTexts :
        /\ Resolve("namespace", ResolveNamespace(value, raw), "redaction")
        /\ Ask(TrimSpace(value) # Empty \/ raw # "", "namespace")

Redaction ==
    \E blocked \in {"", "blank_lines", "patterns", "broken"}, all \in Bools :
        /\ Resolve("redaction", ResolveRedaction(blocked, all), "routes")
        /\ Ask(blocked \in {"patterns", "broken"} \/ all \notin {"", "false"},
               "redaction")

\* A zero configuration leaves its processor out.
Wrapped ==
       {c \in {"environment", "namespace"} : cfg[c] # Off}
    \cup (IF Enabled(cfg.redaction) THEN {"redaction"} ELSE {})

\* The backend key belongs to the sink, the header to the limiter.
Carried ==
       (IF cfg.forward.key # "none" THEN {"key"} ELSE {})
    \cup (IF cfg.prefix.header THEN {"header"} ELSE {})

\* The middleware of the ingest routes.
Guards ==
       (IF cfg.auth # "none" THEN {"auth"} ELSE {})
    \cup (IF cfg.limit.rate # "zero" THEN {"limit"} ELSE {})

Routes == [ingest |-> Guards, healthz |-> {}, metrics |-> {}]

\* registerRoutes; NewForwardingSink refuses a URL it cannot post to.
RegisterRoutes ==
    /\ step = "routes"
    /\ IF cfg.forward.url = "bad"
       THEN step' = "exited" /\ UNCHANGED <<chain, routes>>
       ELSE step' = "watch" /\ chain' = Wrapped \cup Carried /\ routes' = Routes
    /\ UNCHANGED <<cfg, asked, watched, bound, probe>>

Files ==
       (IF cfg.auth = "file" THEN {"auth"} ELSE {})
    \cup (IF cfg.forward.key = "file" /\ cfg.forward.url # "" THEN {"forward"} ELSE {})

Watch ==
    /\ step = "watch"
    /\ step' = "listen"
    /\ watched' = Files
    /\ UNCHANGED <<cfg, asked, chain, routes, bound, probe>>

\* net.Listen, for ListenAndServe: the address may be taken, or not one of
\* this host; port 0 stands for a port that the kernel picks.
Listen ==
    LET addr == ResolveAddr(cfg.addr)
    IN /\ step = "listen"
       /\ \/ step' = "exited" /\ UNCHANGED bound
          \/ /\ AddrResolves(addr)
             /\ step' = "serving"
             /\ \E p \in (IF LookupPort[addr.port] = 0 THEN Ephemeral
                          ELSE {LookupPort[addr.port]}) :
                   bound' = [host |-> addr.host, port |-> p]
       /\ UNCHANGED <<cfg, asked, chain, routes, watched, probe>>

\* Whether a dial reaches the listener.  The IPv4 loopback reaches one on an
\* unspecified address whether or not the host has IPv6; what a dial of an
\* unspecified address does is up to the platform.
Reached(target) ==
    CASE target.port # bound.port -> {FALSE}
      [] target.port = bound.port /\ target.host \in Unspecified -> BOOLEAN
      [] target.port = bound.port /\ target.host \notin Unspecified ->
            {\/ target.host = bound.host
             \/ target.host = "127.0.0.1" /\ bound.host \in Unspecified}

\* What a request without a token may be answered behind middleware.
Answers(guards) ==
    {IF "auth" \in guards THEN 401 ELSE 200}
    \cup (IF "limit" \in guards THEN {429} ELSE {})

\* The healthcheck command in the same environment.  A collector that serves
\* answers within healthcheckTimeout.
Healthcheck ==
    LET addr == ResolveAddr(cfg.addr)
    IN /\ step = "serving" /\ probe = 9
       /\ \E reached \in (IF AddrResolves(addr) THEN Reached(HealthzURL(addr)) ELSE {FALSE}),
             status \in Answers(routes["healthz"]) :
             probe' = IF reached /\ status = 200 THEN 0 ELSE 1
       /\ UNCHANGED <<step, cfg, asked, chain, routes, watched, bound>>

Startup ==
    \/ LogLevel \/ Addr \/ AuthTokens \/ RateLimit \/ IPv6Prefix \/ MaxDecodes
    \/ Forward \/ EnvironmentEnv \/ NamespaceEnv \/ Redaction
    \/ RegisterRoutes \/ Watch \/ Listen \/ Healthcheck

-----------------------------------------------------------------------------
(* Properties.                                                             *)

\* A collector that serves has exactly the controls on that its operator
\* asked for: a variable with a mistake in it never leaves authentication,
\* the limiter or its header, the backend key, a stamp or redaction silently
\* off, and authentication is off only by the opt-out with no token variable
\* set.
\* What is on works: an enabled limiter lets somebody through, and every
\* token file that tokens were taken from is re-read.
OnExactlyAsAsked ==
    step = "serving" =>
        /\ chain \cup routes["ingest"] = asked
        /\ cfg.limit.rate = "positive" => cfg.limit.burst = "positive"
        /\ cfg.auth = "file" => "auth" \in watched
        /\ cfg.forward.key = "file" => "forward" \in watched

\* The healthcheck command finds the collector it runs beside, whatever
\* address that listens on, on any platform, and however its ingest routes
\* are guarded: it fails exactly when the operator left the port to the
\* kernel ("", ":0"), which a second process cannot know.
ProbeSucceeds ==
    probe # 9 => (probe = 0 <=> LookupPort[ResolveAddr(cfg.addr).port] # 0)
=============================================================================
