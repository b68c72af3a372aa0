----------------------------- MODULE TokenFile -----------------------------
(***************************************************************************)
(* internal/tokenfile with the two places its tokens go: the TokenSet that *)
(* the ingest routes check (internal/auth), and the forwardKey that        *)
(* authenticates the collector to the backend (cmd/otherlode-collector).   *)
(*                                                                         *)
(* One goroutine opens the file at the start, re-reads it on a ticker, and *)
(* publishes a changed token list.  Requests load the published list at    *)
(* any time.  An operator replaces the file (a new inode under the same    *)
(* path) or rewrites it in place, also while it is being read.             *)
(*                                                                         *)
(* A file is a record of its kind and its lines; a line is a token, or a   *)
(* blank or comment line.  io.ReadAll reads until the end of the file, one *)
(* line at a time here, so lines of two states may come back together; a   *)
(* line cut in two is a token like any other.                              *)
(***************************************************************************)
EXTENDS Naturals, Sequences, SequencesExt

CONSTANTS
    Tokens,      \* the tokens a line may hold
    Noise,       \* blank lines and comments
    HeaderSafe,  \* the tokens without a control character
    Files,       \* the states of the file, by target
    Requests,    \* ingest requests, or delivery attempts
    Presented    \* the Authorization header of each ingest request

\* A header's scheme, its case folded, and the credential after it.
Schemes == {"bearer", "other", "none"}
\* Where the tokens go.
Targets == {"auth", "forward"}
Kinds == {"absent", "special", "regular", "oversize"}

ASSUME TokenFileAssumption ==
    /\ Tokens \cap Noise = {}
    /\ HeaderSafe \subseteq Tokens
    /\ \A t \in Targets :
          Files[t] \subseteq [kind : Kinds, lines : Seq(Tokens \cup Noise)]
    /\ Presented \in [Requests -> [scheme : Schemes, token : Tokens]]

VARIABLES
    target,   \* which of the two files this is
    file,     \* what the path names now
    opened,   \* the state of the file behind the open handle
    linked,   \* whether the path still names the open handle's file
    buf,      \* the lines io.ReadAll has read
    pc,       \* where the goroutine stands
    booted,   \* whether Open has returned without an error
    loaded,   \* the tokens load returned, until they are applied
    hashes,   \* the slice Store is filling
    live,     \* the published list: TokenSet.hashes, or forwardKey.key
    last,     \* File.last
    failing,  \* File.failing
    ctxDone,  \* whether the signal context has ended
    seen,     \* the list each request loaded, until it is decided
    verdict,  \* what each request was told
    window    \* history: the file's states in the last read

watchVars == <<target, opened, linked, buf, pc, booted, loaded, hashes, live,
               last, failing>>
vars == <<file, watchVars, ctxDone, seen, verdict, window>>

\* The tokens among the lines, in order.
Parse(lines) ==
    LET kept[i \in 0..Len(lines)] ==
          IF i = 0 THEN <<>>
          ELSE IF lines[i] \in Tokens THEN Append(kept[i - 1], lines[i])
          ELSE kept[i - 1]
    IN  kept[Len(lines)]

\* Mutant: the key's characters are not looked at.
CheckNoHeader(tokens) == IF target = "auth" THEN tokens # <<>> ELSE Len(tokens) = 1

\* AtLeastOne, or ExactlyOne and checkHeaderValue.
Check(tokens) ==
    IF target = "auth" THEN tokens # <<>>
    ELSE Len(tokens) = 1 /\ tokens[1] \in HeaderSafe

\* No open handle: Read closes it.
Closed == [kind |-> "absent", lines |-> <<>>]

Init ==
    /\ target \in Targets
    /\ file \in Files[target]
    /\ opened = Closed /\ linked = FALSE /\ buf = <<>>
    /\ pc = "open" /\ booted = FALSE
    /\ loaded = <<>> /\ hashes = <<>>
    /\ live = <<>> /\ last = <<>>
    /\ failing = FALSE /\ ctxDone = FALSE
    /\ seen = [r \in Requests |-> <<>>]
    /\ verdict = [r \in Requests |-> "none"]
    /\ window = {file}

-----------------------------------------------------------------------------
(* The operator and the mount (not in src/).                               *)

\* The window grows until the read is over.
Watched(f) == window' = IF pc \in {"open", "read"} THEN window \cup {f} ELSE window

\* A rename, a symlink swap or a removal leaves the open handle alone.
Replace ==
    /\ \E f \in Files[target] \ {file} : file' = f /\ Watched(f)
    /\ linked' = FALSE
    /\ UNCHANGED <<target, opened, buf, pc, booted, loaded, hashes, live, last,
                   failing, ctxDone, seen, verdict>>

\* A write in place is seen through the open handle too.
Rewrite ==
    /\ file.kind \in {"regular", "oversize"}
    /\ \E f \in Files[target] \ {file} :
        /\ f.kind \in {"regular", "oversize"}
        /\ file' = f /\ Watched(f)
        /\ opened' = IF linked THEN f ELSE opened
    /\ UNCHANGED <<target, linked, buf, pc, booted, loaded, hashes, live, last,
                   failing, ctxDone, seen, verdict>>

-----------------------------------------------------------------------------
(* Open, Watch and reload.                                                 *)

\* Mutant: a failed re-read ends the loop.
FailsStopping ==
    /\ pc' = IF booted THEN "stopped" ELSE "exited"
    /\ failing' = booted
    /\ opened' = Closed /\ linked' = FALSE /\ buf' = <<>>
    /\ UNCHANGED <<target, file, booted, loaded, hashes, live, last, ctxDone,
                   seen, verdict, window>>

\* load returns an error: the start is abandoned (main exits), or the
\* re-read keeps the last good tokens.
Fails ==
    /\ pc' = IF booted THEN "idle" ELSE "exited"
    /\ failing' = booted
    /\ opened' = Closed /\ linked' = FALSE /\ buf' = <<>>
    /\ UNCHANGED <<target, file, booted, loaded, hashes, live, last, ctxDone,
                   seen, verdict, window>>

\* os.OpenFile fails, or the handle is not a regular file.
OpenFails == pc = "open" /\ file.kind \in {"absent", "special"} /\ Fails

OpenFile ==
    /\ pc = "open"
    /\ file.kind \in {"regular", "oversize"}
    /\ opened' = file /\ linked' = TRUE /\ buf' = <<>>
    /\ pc' = "read"
    /\ UNCHANGED <<target, file, booted, loaded, hashes, live, last, failing,
                   ctxDone, seen, verdict, window>>

\* io.ReadAll reads on from where it is in the open file.
ReadLine ==
    /\ pc = "read"
    /\ Len(buf) < Len(opened.lines)
    /\ buf' = Append(buf, opened.lines[Len(buf) + 1])
    /\ UNCHANGED <<target, file, opened, linked, pc, booted, loaded, hashes,
                   live, last, failing, ctxDone, seen, verdict, window>>

\* The read is at the end of the file, which may have become shorter.
AtEnd == pc = "read" /\ Len(buf) >= Len(opened.lines)

\* More than maxFileBytes, or tokens the check rejects.
ReadFails ==
    /\ AtEnd
    /\ opened.kind = "oversize" \/ ~ Check(Parse(buf))
    /\ Fails

\* Mutant: the lists are compared by length.
UnchangedByLength(tokens) == booted /\ Len(tokens) = Len(last)

\* slices.Equal in reload; Open applies whatever it read.
Unchanged(tokens) == booted /\ tokens = last

ReadAll ==
    /\ AtEnd
    /\ opened.kind = "regular"
    /\ Check(Parse(buf))
    /\ loaded' = IF Unchanged(Parse(buf)) THEN <<>> ELSE Parse(buf)
    /\ opened' = Closed /\ linked' = FALSE /\ buf' = <<>>
    /\ failing' = FALSE
    /\ pc' = IF Unchanged(Parse(buf)) THEN "idle" ELSE "apply"
    /\ UNCHANGED <<target, file, booted, hashes, live, last, ctxDone, seen,
                   verdict, window>>

\* Mutant: the loop fills the published slice.
HashTokenInPlace ==
    /\ target = "auth" /\ pc = "apply"
    /\ Len(hashes) < Len(loaded)
    /\ hashes' = Append(hashes, loaded[Len(hashes) + 1])
    /\ live' = hashes'
    /\ UNCHANGED <<target, file, opened, linked, buf, pc, booted, loaded, last,
                   failing, ctxDone, seen, verdict, window>>

\* TokenSet.Store hashes the tokens into a slice of its own.
HashToken ==
    /\ target = "auth" /\ pc = "apply"
    /\ Len(hashes) < Len(loaded)
    /\ hashes' = Append(hashes, loaded[Len(hashes) + 1])
    /\ UNCHANGED <<target, file, opened, linked, buf, pc, booted, loaded, live,
                   last, failing, ctxDone, seen, verdict, window>>

\* apply ends by publishing a pointer; reload (or Open) keeps the tokens.
Publish(tokens) ==
    /\ live' = tokens
    /\ last' = loaded
    /\ booted' = TRUE
    /\ pc' = "idle"
    /\ hashes' = <<>> /\ loaded' = <<>>
    /\ UNCHANGED <<target, file, opened, linked, buf, failing, ctxDone, seen,
                   verdict, window>>

StoreHashes ==
    /\ target = "auth" /\ pc = "apply"
    /\ Len(hashes) = Len(loaded)
    /\ Publish(hashes)

StoreKey == target = "forward" /\ pc = "apply" /\ Publish(<<loaded[1]>>)

\* The ticker fires.  Watch's select may take it although ctx is done.
Tick ==
    /\ pc = "idle"
    /\ pc' = "open"
    /\ window' = {file}
    /\ UNCHANGED <<target, file, opened, linked, buf, booted, loaded, hashes,
                   live, last, failing, ctxDone, seen, verdict>>

WatchStops ==
    /\ pc = "idle" /\ ctxDone
    /\ pc' = "stopped"
    /\ UNCHANGED <<target, file, opened, linked, buf, booted, loaded, hashes,
                   live, last, failing, ctxDone, seen, verdict, window>>

Load == OpenFails \/ OpenFile \/ ReadLine \/ ReadFails \/ ReadAll
Apply == HashToken \/ StoreHashes \/ StoreKey
Watch == Load \/ Apply \/ Tick \/ WatchStops

\* main's signal context ends.
Signal ==
    /\ booted /\ ~ ctxDone
    /\ ctxDone' = TRUE
    /\ UNCHANGED <<file, watchVars, seen, verdict, window>>

-----------------------------------------------------------------------------
(* RequireBearerToken and Matches; or attempt's call of Token.             *)

\* The server starts after Open.  The list is loaded once.
LoadTokens(r) ==
    /\ booted
    /\ verdict[r] = "none"
    /\ target = "auth" => Presented[r].scheme = "bearer"
    /\ seen' = [seen EXCEPT ![r] = live]
    /\ verdict' = [verdict EXCEPT ![r] = "loaded"]
    /\ UNCHANGED <<file, watchVars, ctxDone, window>>

\* bearerToken: without a Bearer header no token is looked at.
NoBearerToken(r) ==
    /\ booted /\ target = "auth"
    /\ verdict[r] = "none"
    /\ Presented[r].scheme # "bearer"
    /\ verdict' = [verdict EXCEPT ![r] = "unauthorized"]
    /\ UNCHANGED <<file, watchVars, ctxDone, seen, window>>

\* An ingest request is admitted or answered 401; a delivery attempt sends
\* the key it loaded.
Decide(r) ==
    /\ verdict[r] = "loaded"
    /\ verdict' = [verdict EXCEPT ![r] =
          IF target = "forward" \/ Presented[r].token \in ToSet(seen[r])
          THEN "admitted" ELSE "unauthorized"]
    /\ seen' = [seen EXCEPT ![r] = <<>>]
    /\ UNCHANGED <<file, watchVars, ctxDone, window>>

Next ==
    \/ Replace \/ Rewrite
    \/ Watch \/ Signal
    \/ \E r \in Requests : LoadTokens(r) \/ Decide(r) \/ NoBearerToken(r)

\* The watching goroutine runs and its ticker fires.  While the context is
\* not done nothing else ends the loop.
Spec == Init /\ [][Next]_vars /\ WF_vars(Watch)

-----------------------------------------------------------------------------
(* Properties.                                                             *)

\* Once the collector serves, the published list is usable, whatever becomes
\* of the file: some token for the ingest routes ("a re-read that finds no
\* token cannot lock every agent out", README.md), exactly one key that a
\* header can carry for the backend.
LiveUsable ==
    booted => IF target = "auth" THEN live # <<>>
              ELSE \E t \in HeaderSafe : live = <<t>>

\* Action property: "a request checks against the old set or the new one,
\* never a mix" (TokenSet).  The list a request loads is the whole of the
\* last list that a read returned and the check passed, although lists are
\* hashed and published while requests load them, and only a Bearer token
\* of that list admits the request, whatever is published meanwhile.
NeverAMix ==
    [][\A r \in Requests :
        /\ verdict[r] = "none" /\ verdict'[r] = "loaded" =>
              seen'[r] = last /\ Check(seen'[r])
        /\ target = "auth" /\ verdict[r] # "admitted" /\ verdict'[r] = "admitted" =>
              Presented[r] \in [scheme : {"bearer"}, token : ToSet(seen[r])]]_vars

\* The lines a read of a file that was in these states may return: each is
\* at its place in one of them, and they reach the end of one of them.  A
\* file that is cut behind the reader's back may end before any other line
\* of it: what was read then belongs to no single state.
Readings(files) ==
    UNION {{lines \in [1..n -> Tokens \cup Noise] :
              /\ \A i \in 1..n : \E f \in files :
                    i \in DOMAIN f.lines /\ f.lines[i] = lines[i]
              /\ \E f \in files : Len(f.lines) <= n}
           : n \in UNION {0..Len(f.lines) : f \in files}}

\* Between re-reads File.failing and the published list tell the truth
\* about the file, although it is replaced, rewritten or cut while it is
\* read.  While not failing, the list is a reading of the states the file had
\* while it was last read; while failing, there was an unusable one.
\* With one state in that time, the list is exactly that file's: what a read
\* of a half-written file publishes stays "until the next re-read"
\* (README.md).
ReloadTruthful ==
    pc = "idle" =>
        IF failing
        THEN \/ \E f \in window : f.kind # "regular"
             \/ \E lines \in Readings(window) : ~ Check(Parse(lines))
        ELSE \E lines \in Readings(window) : live = Parse(lines)

\* A usable file that is left alone is published, after any number of failed
\* re-reads, as long as the collector is not shut down.
RotationApplies ==
    (/\ <>[](booted /\ ~ ctxDone)
     /\ <>[](file.kind = "regular" /\ Check(Parse(file.lines)))
     /\ <>[][FALSE]_file)
        => <>[](live = Parse(file.lines))
=============================================================================
