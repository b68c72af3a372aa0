-------------------------- MODULE TokenFileProofs --------------------------
(***************************************************************************)
(* Proofs about TokenFile for any tokens and lines, any states the file    *)
(* may be in, and any number of requests.                                  *)
(***************************************************************************)
EXTENDS TokenFile, TLAPS, SequenceTheorems, NaturalsInduction, WellFoundedInduction

-----------------------------------------------------------------------------
(* What Parse returns.  The library's induction theorems take a predicate; *)
(* the one below takes a set, which the provers can be given.              *)

LEMMA NatMinimum ==
  ASSUME NEW T \in SUBSET Nat, T # {}
  PROVE  \E x \in T : \A y \in T : x <= y
<1>1. PICK x \in T : \A y \in T : ~ (<<y, x>> \in OpToRel(<, Nat))
  BY NatLessThanWellFounded, WFMin
<1>2. ASSUME NEW y \in T, y < x PROVE FALSE
  <2>1. <<y, x>> \in Nat \X Nat /\ <<y, x>>[1] = y /\ <<y, x>>[2] = x
    OBVIOUS
  <2>2. <<y, x>>[1] < <<y, x>>[2]
    BY <1>2, <2>1, Zenon
  <2>3. <<y, x>> \in OpToRel(<, Nat)
    BY <2>1, <2>2, Zenon DEF OpToRel
  <2> QED BY <1>1, <2>3, Zenon
<1> QED BY <1>2

LEMMA SetInduction ==
  ASSUME NEW P \in SUBSET Nat, 0 \in P, \A n \in P : n + 1 \in P
  PROVE  P = Nat
<1> SUFFICES ASSUME Nat \ P # {} PROVE FALSE
  OBVIOUS
<1>1. PICK x \in Nat \ P : \A y \in Nat \ P : x <= y
  BY NatMinimum
<1>2. x # 0 /\ x - 1 \in Nat /\ x - 1 \in P
  BY <1>1
<1> QED BY <1>1, <1>2

\* The steps of Parse over the first n lines.
Parsing(g, lines, n) ==
    /\ g \in [0..n -> Seq(Tokens)]
    /\ g[0] = <<>>
    /\ \A i \in 1..n : g[i] = IF lines[i] \in Tokens THEN Append(g[i - 1], lines[i])
                              ELSE g[i - 1]

\* They can be carried on to any number of lines.
LEMMA ParsingExists ==
  ASSUME NEW lines, NEW n \in Nat
  PROVE  \E g : Parsing(g, lines, n)
<1> DEFINE P == {k \in Nat : \E g : Parsing(g, lines, k)}
<1>1. 0 \in P
  <2> DEFINE g == [i \in 0..0 |-> <<>>]
  <2>1. Parsing(g, lines, 0)
    BY DEF Parsing
  <2> HIDE DEF g
  <2> QED BY <2>1
<1>2. ASSUME NEW k \in P PROVE k + 1 \in P
  <2>1. PICK g : Parsing(g, lines, k)
    OBVIOUS
  <2> DEFINE next == IF lines[k + 1] \in Tokens THEN Append(g[k], lines[k + 1]) ELSE g[k]
             h == [i \in 0..k + 1 |-> IF i = k + 1 THEN next ELSE g[i]]
  <2>2. g[k] \in Seq(Tokens) /\ next \in Seq(Tokens)
    BY <2>1 DEF Parsing
  <2>3. h \in [0..k + 1 -> Seq(Tokens)] /\ h[0] = <<>>
    BY <2>1, <2>2 DEF Parsing
  <2>4. ASSUME NEW i \in 1..k + 1
        PROVE  h[i] = IF lines[i] \in Tokens THEN Append(h[i - 1], lines[i]) ELSE h[i - 1]
    <3>1. CASE i = k + 1
      <4>1. h[i] = next /\ h[i - 1] = g[k]
        BY <3>1
      <4> QED BY <3>1, <4>1
    <3>2. CASE i # k + 1
      <4>1. i \in 1..k /\ h[i] = g[i] /\ h[i - 1] = g[i - 1]
        BY <3>2
      <4> QED BY <2>1, <4>1 DEF Parsing
    <3> QED BY <3>1, <3>2
  <2>5. Parsing(h, lines, k + 1)
    BY <2>3, <2>4 DEF Parsing
  <2> QED BY <2>5
<1> HIDE DEF P
<1>3. P = Nat
  BY <1>1, <1>2, SetInduction DEF P
<1> QED BY <1>3 DEF P

\* Parse returns a list of tokens.
LEMMA ParseType ==
  ASSUME NEW S, NEW lines \in Seq(S)
  PROVE  Parse(lines) \in Seq(Tokens)
<1> DEFINE n == Len(lines)
           Steps(f) == [i \in 0..n |->
                          IF i = 0 THEN <<>>
                          ELSE IF lines[i] \in Tokens THEN Append(f[i - 1], lines[i])
                          ELSE f[i - 1]]
           kept == CHOOSE f : f = Steps(f)
<1>1. n \in Nat
  BY LenProperties
<1>2. Parse(lines) = kept[n]
  BY DEF Parse
<1>3. PICK g : Parsing(g, lines, n)
  BY <1>1, ParsingExists
<1>4. g = Steps(g)
  <2>1. g = [i \in 0..n |-> g[i]]
    BY <1>3 DEF Parsing
  <2>2. ASSUME NEW i \in 0..n PROVE g[i] = Steps(g)[i]
    <3>1. i = 0 \/ i \in 1..n
      BY <1>1
    <3> QED BY <1>3, <3>1 DEF Parsing
  <2> QED BY <2>1, <2>2
<1>5. kept = Steps(kept)
  BY <1>4
<1> DEFINE P == {k \in Nat : k <= n => kept[k] \in Seq(Tokens)}
<1> HIDE DEF kept
<1>6. 0 \in P
  BY <1>1, <1>5
<1>7. ASSUME NEW k \in P PROVE k + 1 \in P
  <2> SUFFICES ASSUME k + 1 <= n PROVE kept[k + 1] \in Seq(Tokens)
    OBVIOUS
  <2>1. k \in Nat /\ kept[k] \in Seq(Tokens) /\ k + 1 \in 0..n /\ k + 1 # 0
    BY <1>1
  <2>2. kept[k + 1] = Steps(kept)[k + 1]
    BY <1>5
  <2>3. kept[k + 1] = IF lines[k + 1] \in Tokens THEN Append(kept[k], lines[k + 1])
                      ELSE kept[k]
    BY <2>1, <2>2
  <2> QED BY <2>1, <2>3
<1> HIDE DEF P
<1>8. P = Nat
  BY <1>6, <1>7, SetInduction DEF P
<1> QED BY <1>1, <1>2, <1>8 DEF P

-----------------------------------------------------------------------------
(* The inductive invariant.                                                *)

Line == Tokens \cup Noise

TypeInv ==
    /\ target \in Targets
    /\ file \in Files[target]
    /\ window \subseteq Files[target]
    /\ pc \in {"open", "read", "apply", "idle", "stopped", "exited"}
    /\ booted \in BOOLEAN
    /\ failing \in BOOLEAN
    /\ buf \in Seq(Line)
    /\ verdict \in [Requests -> {"none", "loaded", "admitted", "unauthorized"}]
    /\ seen \in [Requests -> Seq(Tokens)]
    /\ live \in Seq(Tokens)

\* What is published is what was last applied, and it passed the check.
PublishedInv ==
    /\ live = last
    /\ booted => Check(live)
    /\ pc \notin {"open", "read", "apply", "exited"} => booted

\* A list on its way to being published is a whole list that passed the
\* check, and the slice Store fills is the part of it hashed so far.
ApplyInv ==
    /\ hashes \in Seq(Tokens)
    /\ pc = "apply" =>
        /\ loaded \in Seq(Tokens) /\ Check(loaded)
        /\ Len(hashes) <= Len(loaded)
        /\ \A i \in 1..Len(hashes) : hashes[i] = loaded[i]
    /\ pc # "apply" => hashes = <<>>

\* Every line is at its place in a state the file had.
InPlace(lines) ==
    \A i \in 1..Len(lines) : \E f \in window :
        i \in DOMAIN f.lines /\ f.lines[i] = lines[i]

\* What the reader has of the file goes back to states in the window.
ReadInv ==
    /\ pc \in {"open", "read"} => file \in window
    /\ pc = "read" => opened \in window /\ InPlace(buf)
    /\ pc = "apply" => ~ failing /\ \E lines \in Readings(window) : loaded = Parse(lines)
    /\ ReloadTruthful

\* A request that has loaded the list carries a Bearer token.
RequestInv ==
    \A r \in Requests :
        verdict[r] = "loaded" /\ target = "auth" => Presented[r].scheme = "bearer"

IInv == TypeInv /\ PublishedInv /\ ApplyInv /\ ReadInv /\ RequestInv

\* The states of a file are records of lines.
LEMMA FileType ==
  ASSUME NEW f \in Files[target], target \in Targets
  PROVE  f.kind \in Kinds /\ f.lines \in Seq(Line)
<1>1. f \in [kind : Kinds, lines : Seq(Line)]
  BY TokenFileAssumption DEF Line
<1> QED BY <1>1

\* A buffer that has reached the end of the open file is a reading.
LEMMA BufferIsReading ==
  ASSUME TypeInv, ReadInv, AtEnd
  PROVE  buf \in Readings(window)
<1> DEFINE n == Len(buf)
<1>1. n \in Nat /\ buf \in [1..n -> Line]
  BY LenProperties DEF TypeInv
<1>2. opened \in window /\ Len(opened.lines) <= n /\ InPlace(buf)
  BY <1>1, FileType, LenProperties DEF TypeInv, ReadInv, AtEnd
<1>3. \E f \in window : n \in 0..Len(f.lines)
  <2>1. CASE n = 0
    <3>1. Len(opened.lines) \in Nat
      BY <1>2, FileType, LenProperties DEF TypeInv
    <3> QED BY <1>2, <2>1, <3>1
  <2>2. CASE n # 0
    <3>1. n \in 1..n
      BY <1>1, <2>2
    <3>2. PICK f \in window : n \in DOMAIN f.lines
      BY <1>2, <3>1 DEF InPlace
    <3>3. f.lines \in Seq(Line)
      BY FileType DEF TypeInv
    <3> QED BY <1>1, <3>2, <3>3, LenProperties
  <2> QED BY <2>1, <2>2
<1>4. n \in UNION {0..Len(f.lines) : f \in window}
  BY <1>3
<1>5. \E f \in window : Len(f.lines) <= n
  BY <1>2
<1>6. \A i \in 1..n : \E f \in window : i \in DOMAIN f.lines /\ f.lines[i] = buf[i]
  BY <1>2 DEF InPlace
<1> HIDE DEF n
<1> QED BY <1>1, <1>4, <1>5, <1>6 DEF Readings, Line

\* The operator changes the file, also while it is read.
LEMMA OperatorStep ==
  ASSUME IInv, Replace \/ Rewrite
  PROVE  IInv'
<1>1. TypeInv /\ PublishedInv /\ ApplyInv /\ ReadInv /\ RequestInv
  BY DEF IInv
<1>2. /\ file' \in Files[target]
      /\ window' = IF pc \in {"open", "read"} THEN window \cup {file'} ELSE window
      /\ opened' = opened \/ opened' = file'
      /\ UNCHANGED <<target, buf, pc, booted, loaded, hashes, live, last,
                     failing, ctxDone, seen, verdict>>
  BY DEF Replace, Rewrite, Watched
<1>3. TypeInv'
  BY <1>1, <1>2 DEF TypeInv
<1>4. PublishedInv' /\ ApplyInv' /\ RequestInv'
  BY <1>1, <1>2 DEF PublishedInv, ApplyInv, RequestInv, Check
<1>5. CASE pc \in {"open", "read"}
  BY <1>1, <1>2, <1>3, <1>4, <1>5 DEF IInv, ReadInv, InPlace, ReloadTruthful
<1>6. CASE pc \notin {"open", "read"}
  <2>1. window' = window /\ \A tokens : Check(tokens)' = Check(tokens)
    BY <1>2, <1>6 DEF Check
  <2>2. ReloadTruthful'
    BY <1>1, <1>2, <2>1, Zenon DEF ReadInv, ReloadTruthful
  <2>3. ReadInv'
    BY <1>1, <1>2, <1>6, <2>1, <2>2 DEF ReadInv
  <2> QED BY <1>3, <1>4, <2>3 DEF IInv
<1> QED BY <1>5, <1>6

\* A failed load leaves the published list alone and says why.
LEMMA FailsStep ==
  ASSUME IInv, Fails, pc \in {"open", "read"},
         \/ \E f \in window : f.kind # "regular"
         \/ \E lines \in Readings(window) : ~ Check(Parse(lines))
  PROVE  IInv'
<1>1. TypeInv /\ PublishedInv /\ ApplyInv /\ ReadInv /\ RequestInv
  BY DEF IInv
<1>2. TypeInv' /\ buf' \in Seq(Line)
  BY <1>1, EmptySeq DEF Fails, TypeInv
<1>3. PublishedInv' /\ ApplyInv' /\ RequestInv'
  BY <1>1 DEF Fails, TypeInv, PublishedInv, ApplyInv, RequestInv, Check
<1>4. /\ pc' \in {"idle", "exited"} /\ pc' \notin {"open", "read", "apply"}
      /\ pc' = "idle" => failing'
  <2>1. CASE booted
    BY <2>1 DEF Fails
  <2>2. CASE ~ booted
    BY <2>2 DEF Fails
  <2> QED BY <2>1, <2>2
<1>5. ReloadTruthful'
  BY <1>4 DEF Fails, ReloadTruthful, Readings, Check
<1>6. ReadInv'
  BY <1>4, <1>5 DEF ReadInv
<1> QED BY <1>2, <1>3, <1>6 DEF IInv

\* The reader opens the file and reads it to the end.
LEMMA LoadStep ==
  ASSUME IInv, Load
  PROVE  IInv'
<1>1. TypeInv /\ PublishedInv /\ ApplyInv /\ ReadInv /\ RequestInv
  BY DEF IInv
<1>2. CASE OpenFails
  BY <1>1, <1>2, FailsStep DEF OpenFails, ReadInv
<1>3. CASE OpenFile
  <2>1. TypeInv' /\ buf' = <<>> /\ Len(buf') = 0
    BY <1>1, <1>3, EmptySeq DEF OpenFile, TypeInv
  <2>2. PublishedInv' /\ ApplyInv' /\ RequestInv'
    BY <1>1, <1>3 DEF OpenFile, PublishedInv, ApplyInv, RequestInv, Check
  <2>3. ReadInv'
    BY <1>1, <1>3, <2>1 DEF OpenFile, ReadInv, InPlace, ReloadTruthful
  <2> QED BY <2>1, <2>2, <2>3 DEF IInv
<1>4. CASE ReadLine
  <2> DEFINE k == Len(buf) + 1
             line == opened.lines[k]
  <2>1. opened \in window /\ opened.lines \in Seq(Line) /\ Len(buf) \in Nat
    BY <1>1, <1>4, FileType, LenProperties DEF ReadLine, ReadInv, TypeInv
  <2>2. k \in DOMAIN opened.lines /\ line \in Line
    BY <1>4, <2>1, LenProperties, ElementOfSeq DEF ReadLine
  <2> HIDE DEF line
  <2>3. /\ buf' = Append(buf, line) /\ buf' \in Seq(Line) /\ Len(buf') = k
        /\ buf'[k] = line /\ \A i \in 1..Len(buf) : buf'[i] = buf[i]
    BY <1>1, <1>4, <2>2, AppendProperties DEF ReadLine, TypeInv, line
  <2>4. TypeInv'
    BY <1>1, <1>4, <2>3 DEF ReadLine, TypeInv
  <2>5. PublishedInv' /\ ApplyInv' /\ RequestInv'
    BY <1>1, <1>4 DEF ReadLine, PublishedInv, ApplyInv, RequestInv, Check
  <2>6. InPlace(buf)'
    <3> SUFFICES ASSUME NEW i \in 1..Len(buf')
                 PROVE  \E f \in window' : i \in DOMAIN f.lines /\ f.lines[i] = buf'[i]
      BY DEF InPlace
    <3>1. window' = window
      BY <1>4 DEF ReadLine
    <3>2. CASE i = k
      BY <2>1, <2>2, <2>3, <3>1, <3>2 DEF line
    <3>3. CASE i # k
      <4>1. i \in 1..Len(buf) /\ buf'[i] = buf[i]
        BY <2>1, <2>3, <3>3
      <4>2. InPlace(buf)
        BY <1>1, <1>4 DEF ReadInv, ReadLine
      <4> QED BY <3>1, <4>1, <4>2 DEF InPlace
    <3> QED BY <3>2, <3>3
  <2>7. ReadInv'
    BY <1>1, <1>4, <2>6 DEF ReadLine, ReadInv, ReloadTruthful
  <2> QED BY <2>4, <2>5, <2>7 DEF IInv
<1>5. CASE ReadFails
  <2>1. pc = "read" /\ opened \in window /\ buf \in Readings(window)
    BY <1>1, <1>5, BufferIsReading DEF ReadFails, AtEnd, ReadInv
  <2> QED BY <1>5, <2>1, FailsStep DEF ReadFails
<1>6. CASE ReadAll
  <2>1. buf \in Readings(window) /\ Parse(buf) \in Seq(Tokens)
    BY <1>1, <1>6, BufferIsReading, ParseType DEF ReadAll, TypeInv
  <2>2. TypeInv'
    BY <1>1, <1>6, EmptySeq DEF ReadAll, TypeInv
  <2>3. PublishedInv'
    BY <1>1, <1>6 DEF ReadAll, Unchanged, PublishedInv, Check
  <2>4. ApplyInv'
    <3>1. hashes' = <<>> /\ Len(hashes') = 0 /\ hashes' \in Seq(Tokens)
      BY <1>1, <1>6, EmptySeq DEF ReadAll, ApplyInv, AtEnd
    <3>2. pc' = "apply" => loaded' = Parse(buf) /\ Check(loaded)'
      BY <1>6 DEF ReadAll, Check
    <3> QED BY <2>1, <3>1, <3>2, LenProperties DEF ApplyInv
  <2>5. RequestInv'
    BY <1>1, <1>6 DEF ReadAll, RequestInv
  <2>6. ReadInv'
    <3>1. /\ ~ failing' /\ Readings(window') = Readings(window)
          /\ pc' \in {"idle", "apply"}
          /\ pc' = "idle" => live' = Parse(buf)
          /\ pc' = "apply" => loaded' = Parse(buf)
      BY <1>1, <1>6 DEF ReadAll, Unchanged, PublishedInv
    <3> QED BY <2>1, <3>1 DEF ReadInv, ReloadTruthful
  <2> QED BY <2>2, <2>3, <2>4, <2>5, <2>6 DEF IInv
<1> QED BY <1>2, <1>3, <1>4, <1>5, <1>6 DEF Load

\* Store fills its slice and publishes it; the key is published at once.
LEMMA ApplyStep ==
  ASSUME IInv, Apply
  PROVE  IInv'
<1>1. /\ TypeInv /\ PublishedInv /\ ApplyInv /\ ReadInv /\ RequestInv
      /\ pc = "apply" /\ loaded \in Seq(Tokens) /\ Check(loaded)
  BY DEF IInv, ApplyInv, Apply, HashToken, StoreHashes, StoreKey
<1>2. CASE HashToken
  <2>1. TypeInv' /\ PublishedInv' /\ RequestInv'
    BY <1>1, <1>2 DEF HashToken, TypeInv, PublishedInv, RequestInv, Check
  <2>2. ReadInv'
    BY <1>1, <1>2 DEF HashToken, ReadInv, ReloadTruthful, Readings
  <2>3. ApplyInv'
    <3> DEFINE k == Len(hashes) + 1
               token == loaded[k]
    <3>1. Len(hashes) \in Nat /\ k \in 1..Len(loaded) /\ token \in Tokens
      BY <1>1, <1>2, LenProperties, ElementOfSeq DEF HashToken, ApplyInv
    <3> HIDE DEF token
    <3>2. /\ hashes' \in Seq(Tokens) /\ Len(hashes') = k /\ hashes'[k] = token
          /\ \A i \in 1..Len(hashes) : hashes'[i] = hashes[i]
      BY <1>1, <1>2, <3>1, AppendProperties DEF HashToken, ApplyInv, token
    <3>3. UNCHANGED <<target, pc, loaded>>
      BY <1>2 DEF HashToken
    <3>4. ASSUME NEW i \in 1..Len(hashes') PROVE hashes'[i] = loaded'[i]
      BY <1>1, <3>1, <3>2, <3>3 DEF ApplyInv, token
    <3>5. Len(hashes') <= Len(loaded') /\ Check(loaded)'
      BY <1>1, <3>1, <3>2, <3>3 DEF Check
    <3> QED BY <1>1, <3>2, <3>3, <3>4, <3>5 DEF ApplyInv
  <2> QED BY <2>1, <2>2, <2>3 DEF IInv
<1>3. ASSUME Publish(loaded) PROVE IInv'
  <2>1. TypeInv' /\ PublishedInv' /\ RequestInv'
    BY <1>1, <1>3 DEF Publish, TypeInv, PublishedInv, RequestInv, Check
  <2>2. ApplyInv'
    BY <1>3, EmptySeq DEF Publish, ApplyInv
  <2>3. ReadInv'
    BY <1>1, <1>3 DEF Publish, ReadInv, ReloadTruthful, Readings
  <2> QED BY <2>1, <2>2, <2>3 DEF IInv
<1>4. CASE StoreHashes
  <2>1. hashes = loaded
    BY <1>1, <1>4, SeqEqual DEF StoreHashes, ApplyInv
  <2> QED BY <1>3, <1>4, <2>1 DEF StoreHashes
<1>5. CASE StoreKey
  <2>1. Len(loaded) = 1
    BY <1>1, <1>5 DEF StoreKey, Check
  <2>2. <<loaded[1]>> = loaded
    BY <1>1, <2>1, LenProperties
  <2> QED BY <1>3, <1>5, <2>2 DEF StoreKey
<1> QED BY <1>2, <1>4, <1>5 DEF Apply

\* The ticker, the end of the watch, the signal and the requests.
LEMMA OtherStep ==
  ASSUME IInv, \/ Tick \/ WatchStops \/ Signal
               \/ \E r \in Requests : LoadTokens(r) \/ Decide(r) \/ NoBearerToken(r)
  PROVE  IInv'
<1>1. TypeInv /\ PublishedInv /\ ApplyInv /\ ReadInv /\ RequestInv
  BY DEF IInv
<1>2. CASE Tick
  <2>1. TypeInv' /\ PublishedInv' /\ ApplyInv' /\ RequestInv'
    BY <1>1, <1>2 DEF Tick, TypeInv, PublishedInv, ApplyInv, RequestInv, Check
  <2>2. ReadInv'
    BY <1>2 DEF Tick, ReadInv, ReloadTruthful
  <2> QED BY <2>1, <2>2 DEF IInv
<1>3. CASE WatchStops
  <2>1. TypeInv' /\ PublishedInv' /\ ApplyInv' /\ RequestInv'
    BY <1>1, <1>3 DEF WatchStops, TypeInv, PublishedInv, ApplyInv, RequestInv, Check
  <2>2. ReadInv'
    BY <1>3 DEF WatchStops, ReadInv, ReloadTruthful
  <2> QED BY <2>1, <2>2 DEF IInv
<1>4. ASSUME UNCHANGED <<file, watchVars, window>>
      PROVE  PublishedInv' /\ ApplyInv' /\ ReadInv'
  BY <1>1, <1>4 DEF watchVars, PublishedInv, ApplyInv, ReadInv, InPlace, ReloadTruthful,
     Readings, Check
<1>5. CASE Signal
  BY <1>1, <1>4, <1>5 DEF Signal, watchVars, TypeInv, RequestInv, IInv
<1>6. ASSUME NEW r \in Requests, LoadTokens(r) \/ Decide(r) \/ NoBearerToken(r)
      PROVE  IInv'
  <2>1. UNCHANGED <<file, watchVars, window>>
    BY <1>6 DEF LoadTokens, Decide, NoBearerToken
  <2>2. TypeInv'
    <3>1. verdict' \in [Requests -> {"none", "loaded", "admitted", "unauthorized"}]
      BY <1>1, <1>6 DEF TypeInv, LoadTokens, Decide, NoBearerToken
    <3>2. seen' \in [Requests -> Seq(Tokens)]
      <4>1. <<>> \in Seq(Tokens) /\ live \in Seq(Tokens)
        BY <1>1, EmptySeq DEF TypeInv
      <4>2. CASE LoadTokens(r)
        BY <1>1, <4>1, <4>2 DEF TypeInv, LoadTokens
      <4>3. CASE Decide(r)
        BY <1>1, <4>1, <4>3 DEF TypeInv, Decide
      <4>4. CASE NoBearerToken(r)
        BY <1>1, <4>4 DEF TypeInv, NoBearerToken
      <4> QED BY <1>6, <4>2, <4>3, <4>4
    <3> QED BY <1>1, <2>1, <3>1, <3>2 DEF TypeInv, watchVars
  <2>3. RequestInv'
    BY <1>1, <1>6, <2>1 DEF TypeInv, RequestInv, LoadTokens, Decide, NoBearerToken,
       watchVars
  <2> QED BY <1>4, <2>1, <2>2, <2>3 DEF IInv
<1> QED BY <1>2, <1>3, <1>5, <1>6

LEMMA IInvStep == IInv /\ [Next]_vars => IInv'
<1>1. ASSUME IInv, UNCHANGED vars PROVE IInv'
  <2>1. TypeInv' /\ PublishedInv' /\ ApplyInv' /\ RequestInv'
    BY <1>1 DEF vars, watchVars, IInv, TypeInv, PublishedInv, ApplyInv, RequestInv, Check
  <2>2. ReadInv'
    BY <1>1 DEF vars, watchVars, IInv, ReadInv, InPlace, ReloadTruthful, Check
  <2> QED BY <2>1, <2>2 DEF IInv
<1> QED BY <1>1, OperatorStep, LoadStep, ApplyStep, OtherStep DEF Next, Watch

LEMMA IInvAlways == Spec => []IInv
<1>1. Init => IInv
  BY EmptySeq DEF Init, IInv, TypeInv, PublishedInv, ApplyInv, ReadInv, RequestInv,
     ReloadTruthful
<1> QED BY <1>1, IInvStep, PTL DEF Spec

-----------------------------------------------------------------------------
(* The theorems.                                                           *)

\* Whatever states the file goes through, once the collector serves there is
\* a token for the agents, or one key a header can carry for the backend.
THEOREM LiveUsableAlways == Spec => []LiveUsable
<1>1. IInv => LiveUsable
  <2> SUFFICES ASSUME IInv, booted
               PROVE  IF target = "auth" THEN live # <<>>
                      ELSE \E t \in HeaderSafe : live = <<t>>
    BY DEF LiveUsable
  <2>1. Check(live) /\ live \in Seq(Tokens)
    BY DEF IInv, TypeInv, PublishedInv
  <2>2. Len(live) = 1 => live = <<live[1]>>
    BY <2>1, LenProperties
  <2> QED BY <2>1, <2>2 DEF Check
<1> QED BY <1>1, IInvAlways, PTL

\* Between re-reads, the failing flag and the published list agree with the
\* states the file had during the last read, however it was replaced,
\* rewritten or cut meanwhile.
THEOREM ReloadTruthfulAlways == Spec => []ReloadTruthful
<1>1. IInv => ReloadTruthful
  BY DEF IInv, ReadInv
<1> QED BY <1>1, IInvAlways, PTL

\* Every request loads the whole of a list that passed the check, and is
\* admitted only by a Bearer token of the list it loaded.
THEOREM NeverAMixAlways == Spec => NeverAMix
<1>1. ASSUME IInv, Next, NEW r \in Requests
      PROVE  /\ verdict[r] = "none" /\ verdict'[r] = "loaded" =>
                   seen'[r] = last /\ Check(seen'[r])
             /\ target = "auth" /\ verdict[r] # "admitted" /\ verdict'[r] = "admitted" =>
                   Presented[r] \in [scheme : {"bearer"}, token : ToSet(seen[r])]
  <2>1. TypeInv /\ PublishedInv /\ RequestInv
    BY <1>1 DEF IInv
  <2>2. CASE UNCHANGED verdict
    BY <2>1, <2>2 DEF TypeInv
  <2>3. ASSUME NEW q \in Requests, q # r, LoadTokens(q) \/ Decide(q) \/ NoBearerToken(q)
        PROVE  verdict'[r] = verdict[r]
    BY <2>1, <2>3 DEF TypeInv, LoadTokens, Decide, NoBearerToken
  <2>4. CASE LoadTokens(r)
    <3>1. seen'[r] = last /\ Check(seen'[r]) /\ verdict'[r] = "loaded"
      BY <2>1, <2>4 DEF TypeInv, PublishedInv, LoadTokens
    <3> QED BY <3>1
  <2>5. CASE NoBearerToken(r)
    BY <2>1, <2>5 DEF TypeInv, NoBearerToken
  <2>6. CASE Decide(r)
    <3>1. verdict[r] = "loaded"
      BY <2>6 DEF Decide
    <3>2. ASSUME target = "auth", verdict'[r] = "admitted"
          PROVE  Presented[r].scheme = "bearer" /\ Presented[r].token \in ToSet(seen[r])
      BY <2>1, <2>6, <3>1, <3>2 DEF TypeInv, RequestInv, Decide
    <3>3. Presented[r] \in [scheme : Schemes, token : Tokens]
      BY TokenFileAssumption
    <3>4. Presented[r] = [scheme |-> Presented[r].scheme, token |-> Presented[r].token]
      BY <3>3
    <3> QED BY <3>1, <3>2, <3>4
  <2>7. UNCHANGED verdict \/ \E q \in Requests :
            LoadTokens(q) \/ Decide(q) \/ NoBearerToken(q)
    BY <1>1 DEF Next, Replace, Rewrite, Watch, Load, OpenFails, OpenFile, ReadLine,
       ReadFails, ReadAll, Fails, Apply, HashToken, StoreHashes, StoreKey, Publish, Tick,
       WatchStops, Signal
  <2> QED BY <2>1, <2>2, <2>3, <2>4, <2>5, <2>6, <2>7
<1>2. IInv /\ [Next]_vars =>
        [\A r \in Requests :
            /\ verdict[r] = "none" /\ verdict'[r] = "loaded" =>
                  seen'[r] = last /\ Check(seen'[r])
            /\ target = "auth" /\ verdict[r] # "admitted" /\ verdict'[r] = "admitted" =>
                  Presented[r] \in [scheme : {"bearer"}, token : ToSet(seen[r])]]_vars
  BY <1>1
<1> QED BY <1>2, IInvAlways, PTL DEF Spec, NeverAMix
=============================================================================
