--------------------------- MODULE MarketDataProofs ---------------------------
(***************************************************************************)
(* Theorems about the bars and the features, for any files, symbols,       *)
(* requests, TTL and cache size.                                           *)
(***************************************************************************)
EXTENDS MarketData, FiniteSetTheorems, TLAPS

-----------------------------------------------------------------------------
(* The inductive invariant.                                                *)

\* The script is at a table it was to load, at most one chunk ahead of what is
\* committed unless it only reads, and skips only when it was told to.
InStep ==
    /\ \A t \in Tables :
          /\ loaded[t] <= Size[t]
          /\ outcome[t] = "skipped" => loader.resume
    /\ loader.table \in Tables =>
          /\ loader.table \in loader.tables
          /\ loader.dry \/ loader.chunk <= loaded[loader.table] + 1

IngestIInv == IngestTypes /\ InStep /\ LoadIsTrue

\* An entry is of bars that were current at its time or later.
Dated(e) == e.at # -1 => e.at <= clock /\ (e.since # Fresh => e.at <= e.since)

\* A request was there before its bars were read; what it found in the cache
\* is younger than TTL.
Aged(x) ==
    /\ x.pc \in {"arrived", "missed", "computed", "answered"} => x.now <= clock
    /\ x.pc = "missed" => x.since = Fresh
    /\ x.pc = "computed" /\ x.since # Fresh => x.now <= x.since
    /\ x.pc = "answered" /\ x.since # Fresh => x.now - x.since < TTL

Ageing ==
    /\ \A s \in Symbols : Dated(cache[s])
    /\ \A q \in Requests : Aged(request[q])

FeatureIInv == FeatureTypes /\ Ageing /\ CacheBounded

-----------------------------------------------------------------------------
(* The script.                                                             *)

LEMMA SizesAreNatural ==
    Len(Size) \in Nat /\ \A t \in Tables : t \in Nat /\ Size[t] \in Nat /\ Expected[t] \in Nat
  <1>1. Len(Size) \in Nat /\ \A t \in 1 .. Len(Size) : Size[t] \in Nat \ {0}
    BY IngestAssumption
  <1>2. \A t \in 1 .. Len(Size) : t \in Nat /\ Expected[t] \in Nat \ {0}
    BY IngestAssumption
  <1> QED BY <1>1, <1>2 DEF Tables

\* What is known of the script in every state.
LEMMA ScriptFacts ==
    ASSUME IngestIInv
    PROVE  /\ loaded \in [Tables -> Nat] /\ loader \in LoaderType
           /\ loader.table \in Nat /\ loader.chunk \in Nat
           /\ \A t \in Tables :
                 /\ loaded[t] \in Nat /\ loaded[t] <= Size[t]
                 /\ outcome[t] = "skipped" => loader.resume
  <1>1. loaded \in [Tables -> Nat] /\ loader \in LoaderType /\ InStep
    BY DEF IngestIInv, IngestTypes
  <1>2. loader.table \in Nat /\ loader.chunk \in Nat
    BY <1>1 DEF LoaderType
  <1>3. \A t \in Tables : loaded[t] \in Nat
    BY <1>1
  <1>4. \A t \in Tables : loaded[t] <= Size[t] /\ (outcome[t] = "skipped" => loader.resume)
    BY <1>1 DEF InStep
  <1> QED BY <1>1, <1>2, <1>3, <1>4

LEMMA IngestStarts == IngestInit => IngestIInv
  <1> SUFFICES ASSUME IngestInit PROVE IngestIInv
    OBVIOUS
  <1>1. loader.table = 0 /\ loader.chunk = 0 /\ loader \in LoaderType
    BY DEF IngestInit, NoLoader, LoaderType
  <1>2. /\ loaded \in [Tables -> Nat] /\ \A t \in Tables : loaded[t] = 0
        /\ outcome \in [Tables -> {"none", "ok", "skipped", "error"}]
        /\ \A t \in Tables : outcome[t] = "none"
    BY DEF IngestInit, Silence
  <1>3. Len(Size) \in Nat /\ \A t \in Tables : t \in Nat /\ Size[t] \in Nat
    BY SizesAreNatural
  <1> QED BY <1>1, <1>2, <1>3 DEF IngestIInv, IngestTypes, InStep, LoadIsTrue, Tables

\* Rows are only added, to the end of the file at the most, and by no dry run.
Grows ==
    /\ loaded' \in [Tables -> Nat]
    /\ \A t \in Tables : loaded[t] <= loaded'[t] /\ loaded'[t] <= Size[t]
    /\ loader.dry => loaded' = loaded

LEMMA CommitGrows ==
    ASSUME IngestIInv, NEW t \in Tables, Commit(t), loader.chunk \in 1 .. Size[t]
    PROVE  Grows /\ (loader.dry \/ loaded'[t] >= loader.chunk)
  <1>1. /\ loaded \in [Tables -> Nat] /\ loader.chunk \in Nat
        /\ \A u \in Tables : loaded[u] \in Nat /\ loaded[u] <= Size[u] /\ Size[u] \in Nat
    BY ScriptFacts, SizesAreNatural
  <1>2. CASE loader.dry \/ loaded[t] >= loader.chunk
    BY <1>1, <1>2 DEF Commit, Grows
  <1>3. CASE ~(loader.dry \/ loaded[t] >= loader.chunk)
    BY <1>1, <1>3 DEF Commit, Grows
  <1> QED BY <1>2, <1>3

LEMMA UnchangedGrows == IngestIInv /\ UNCHANGED loaded => Grows
  BY ScriptFacts DEF Grows

\* The script tells of a table and goes on to a later one, or to the end.
LEMMA NextTableStays ==
    ASSUME IngestIInv, NEW t \in Tables, loader.table = t, Grows,
           NEW said \in {"ok", "skipped", "error"}, NextTable(t, said),
           said = "ok" => loader.dry \/ loaded'[t] = Size[t],
           said = "skipped" => loader.resume
    PROVE  IngestIInv' /\ loader'.table > loader.table /\ loader'.dry = loader.dry
  <1>1. PICK u \in 1 .. Len(Size) + 1 :
            Follows(loader.tables, t, u) /\ loader' = [loader EXCEPT !.table = u, !.chunk = 0]
    BY DEF NextTable
  <1>2. /\ loader \in LoaderType /\ Len(Size) \in Nat /\ u \in Nat /\ u <= Len(Size) + 1
        /\ \A v \in Tables : /\ v \in Nat /\ Size[v] \in Nat /\ loaded'[v] \in Nat
                             /\ loaded[v] \in Nat /\ v <= Len(Size)
        /\ loaded' \in [Tables -> Nat]
    BY SizesAreNatural DEF IngestIInv, IngestTypes, Grows, Tables
  <1>3. loader' = [table |-> u, chunk |-> 0, tables |-> loader.tables,
                   resume |-> loader.resume, dry |-> loader.dry]
    BY <1>1, <1>2 DEF LoaderType
  <1>4. /\ loader' \in LoaderType /\ loader'.table = u /\ loader'.chunk = 0
        /\ loader'.tables = loader.tables /\ loader'.resume = loader.resume
        /\ loader'.dry = loader.dry
    BY <1>2, <1>3 DEF LoaderType
  <1>5. /\ t < u /\ (u \in Tables => u \in loader.tables)
        /\ \A v \in loader.tables : ~(t < v /\ v < u)
    BY <1>1, <1>2 DEF Follows
  <1>6. /\ outcome' \in [Tables -> {"none", "ok", "skipped", "error"}]
        /\ \A v \in Tables : outcome'[v] = IF v = t THEN said ELSE outcome[v]
    BY DEF NextTable, IngestIInv, IngestTypes
  <1>7. ASSUME NEW v \in Tables
        PROVE  /\ outcome'[v] # "none" <=> v \in loader.tables /\ v < u
               /\ outcome'[v] = "ok" /\ ~loader.dry => loaded'[v] = Size[v]
               /\ outcome'[v] = "skipped" => loader.resume
    <2>1. CASE v = t
      BY <1>5, <1>6, <2>1 DEF IngestIInv, InStep
    <2>2. CASE v # t
      <3>1. /\ outcome[v] # "none" <=> v \in loader.tables /\ v < t
            /\ outcome[v] = "ok" /\ ~loader.dry => loaded[v] = Size[v]
            /\ outcome[v] = "skipped" => loader.resume
        BY ScriptFacts DEF IngestIInv, LoadIsTrue
      <3>2. v < t \/ t < v
        BY <1>2, <2>2
      <3>3. v \in loader.tables => (v < t <=> v < u)
        BY <1>2, <1>5, <3>2
      <3>4. loaded[v] <= loaded'[v] /\ loaded'[v] <= Size[v]
        BY DEF Grows
      <3> QED BY <1>2, <1>6, <2>2, <3>1, <3>3, <3>4
    <2> QED BY <2>1, <2>2
  <1>8. IngestTypes'
    BY <1>2, <1>4, <1>6 DEF IngestTypes
  <1>9. InStep' /\ LoadIsTrue'
    BY <1>2, <1>4, <1>5, <1>7 DEF InStep, LoadIsTrue, Grows
  <1> QED BY <1>2, <1>4, <1>5, <1>8, <1>9 DEF IngestIInv

\* Within a table the script goes on to the next chunk and tells nothing new.
LEMMA NextChunkStays ==
    ASSUME IngestIInv, NEW t \in Tables, loader.table = t, Grows,
           UNCHANGED outcome, loader' = [loader EXCEPT !.chunk = loader.chunk + 1],
           loader.chunk <= Size[t], loader.dry \/ loader.chunk <= loaded'[t]
    PROVE  IngestIInv' /\ loader'.dry = loader.dry
  <1>1. /\ loader \in LoaderType /\ loader.chunk \in Nat
        /\ \A v \in Tables : /\ Size[v] \in Nat /\ loaded[v] \in Nat /\ loaded'[v] \in Nat
                             /\ loaded[v] <= loaded'[v] /\ loaded'[v] <= Size[v]
        /\ loaded' \in [Tables -> Nat]
    BY SizesAreNatural DEF IngestIInv, IngestTypes, LoaderType, Grows
  <1> DEFINE c == loader.chunk + 1
  <1>2. loader' = [loader EXCEPT !.chunk = c] /\ c \in Nat
    BY <1>1
  <1> HIDE DEF c
  <1>3. /\ loader' \in LoaderType /\ loader'.table = t /\ loader'.chunk = c
        /\ loader'.tables = loader.tables /\ loader'.resume = loader.resume
        /\ loader'.dry = loader.dry
    BY <1>1, <1>2 DEF LoaderType
  <1>4. IngestTypes'
    BY <1>1, <1>3 DEF IngestIInv, IngestTypes, c
  <1>5. InStep'
    BY <1>1, <1>3 DEF IngestIInv, InStep, c
  <1>6. LoadIsTrue'
    BY <1>1, <1>3 DEF IngestIInv, LoadIsTrue
  <1> QED BY <1>3, <1>4, <1>5, <1>6 DEF IngestIInv

\* What a step of the script does to its position and to the rows.
LoaderMoves ==
    \/ loader = NoLoader \/ loader' = NoLoader
    \/ loader'.table > loader.table
    \/ loader'.table = loader.table /\ loader'.chunk = loader.chunk + 1

ScriptStep ==
    \/ \E chosen \in SUBSET Tables, resume, dry \in BOOLEAN : RunIngest(chosen, resume, dry)
    \/ \E t \in Tables : \/ Skip(t) \/ ResumeFails(t) \/ Open(t) \/ Close(t)
                         \/ UpsertChunk(t) \/ UpsertFails(t)
    \/ Stop

LEMMA IngestMoves ==
    ASSUME IngestIInv, ScriptStep
    PROVE  IngestIInv' /\ Grows /\ LoaderMoves
  <1> DEFINE Goal == IngestIInv' /\ Grows /\ LoaderMoves
  <1>1. /\ loaded \in [Tables -> Nat] /\ loader \in LoaderType /\ Len(Size) \in Nat
        /\ \A u \in Tables : /\ u \in Nat /\ u > 0 /\ Size[u] \in Nat /\ loaded[u] \in Nat
                             /\ loaded[u] <= Size[u]
        /\ loader.chunk \in Nat
    BY ScriptFacts, SizesAreNatural DEF Tables
  <1>2. ASSUME NEW chosen \in SUBSET Tables, NEW resume \in BOOLEAN, NEW dry \in BOOLEAN,
               RunIngest(chosen, resume, dry)
        PROVE  Goal
    <2>1. PICK u \in Tables :
            /\ Follows(chosen, 0, u)
            /\ loader' = [table |-> u, chunk |-> 0, tables |-> chosen,
                          resume |-> resume /\ ~dry, dry |-> dry]
      BY <1>2 DEF RunIngest
    <2>2. /\ loader' \in LoaderType /\ loader'.table = u /\ loader'.chunk = 0
          /\ loader'.tables = chosen
      BY <1>1, <2>1 DEF LoaderType
    <2>3. /\ u \in chosen /\ \A v \in chosen : ~(v < u)
      BY <1>1, <2>1 DEF Follows, Tables
    <2>4. /\ loaded' = loaded /\ loader = NoLoader
          /\ outcome' \in [Tables -> {"none", "ok", "skipped", "error"}]
          /\ \A v \in Tables : outcome'[v] = "none"
      BY <1>2 DEF RunIngest, Silence
    <2>5. IngestTypes'
      BY <1>1, <2>2, <2>4 DEF IngestTypes, Tables
    <2>6. InStep' /\ LoadIsTrue'
      BY <1>1, <2>2, <2>3, <2>4 DEF InStep, LoadIsTrue
    <2> QED BY <2>4, <2>5, <2>6, UnchangedGrows DEF IngestIInv, LoaderMoves
  <1>3. ASSUME NEW t \in Tables, Skip(t) PROVE Goal
    BY <1>3, UnchangedGrows, NextTableStays DEF Skip, LoaderMoves
  <1>4. ASSUME NEW t \in Tables, ResumeFails(t) PROVE Goal
    BY <1>4, UnchangedGrows, NextTableStays DEF ResumeFails, LoaderMoves
  <1>5. ASSUME NEW t \in Tables, Open(t) PROVE Goal
    <2>1. /\ loader.table = t /\ loader.chunk = 0 /\ UNCHANGED <<loaded, outcome>>
          /\ loader' = [loader EXCEPT !.chunk = loader.chunk + 1]
      BY <1>5 DEF Open
    <2>2. IngestIInv' /\ Grows
      BY <1>1, <2>1, UnchangedGrows, NextChunkStays
    <2>3. LoaderMoves
      BY <1>1, <2>1 DEF LoaderMoves, LoaderType
    <2> QED BY <2>2, <2>3
  <1>6. ASSUME NEW t \in Tables, Close(t) PROVE Goal
    <2>1. loader.dry \/ loaded[t] = Size[t]
      BY <1>1, <1>6 DEF Close, IngestIInv, InStep
    <2> QED BY <1>6, <2>1, UnchangedGrows, NextTableStays DEF Close, LoaderMoves
  <1>7. ASSUME NEW t \in Tables, UpsertChunk(t) PROVE Goal
    <2>1. /\ loader.table = t /\ loader.chunk \in 1 .. Size[t] /\ UNCHANGED outcome
          /\ loader' = [loader EXCEPT !.chunk = loader.chunk + 1] /\ Commit(t)
      BY <1>7 DEF UpsertChunk
    <2>2. Grows /\ (loader.dry \/ loaded'[t] >= loader.chunk)
      BY <2>1, CommitGrows
    <2>3. loaded'[t] \in Nat
      BY <2>2 DEF Grows
    <2>4. loader.chunk <= Size[t] /\ (loader.dry \/ loader.chunk <= loaded'[t])
      BY <1>1, <2>1, <2>2, <2>3
    <2>5. IngestIInv'
      BY <2>1, <2>2, <2>4, NextChunkStays
    <2>6. LoaderMoves
      BY <1>1, <2>1 DEF LoaderMoves, LoaderType
    <2> QED BY <2>2, <2>5, <2>6
  <1>8. ASSUME NEW t \in Tables, UpsertFails(t) PROVE Goal
    <2>1. Grows
      BY <1>8, CommitGrows, UnchangedGrows DEF UpsertFails
    <2> QED BY <1>8, <2>1, NextTableStays DEF UpsertFails, LoaderMoves
  <1>9. CASE Stop
    <2>1. /\ UNCHANGED loaded /\ loader' = NoLoader
          /\ outcome' \in [Tables -> {"none", "ok", "skipped", "error"}]
          /\ \A v \in Tables : outcome'[v] = "none"
      BY <1>9 DEF Stop, Silence
    <2>2. loader' \in LoaderType /\ loader'.table = 0 /\ 0 \notin Tables
      BY <1>1, <2>1 DEF NoLoader, LoaderType
    <2>3. IngestTypes'
      BY <1>1, <2>1, <2>2 DEF IngestTypes
    <2>4. InStep' /\ LoadIsTrue'
      BY <1>1, <2>1, <2>2 DEF InStep, LoadIsTrue
    <2> QED BY <2>1, <2>3, <2>4, UnchangedGrows DEF IngestIInv, LoaderMoves
  <1> QED BY <1>2, <1>3, <1>4, <1>5, <1>6, <1>7, <1>8, <1>9 DEF ScriptStep

-----------------------------------------------------------------------------
(* feature-builder.                                                        *)

LEMMA CachedIsFinite == IsFiniteSet(Cached) /\ Cardinality(Cached) \in Nat
  <1>1. Cached \subseteq Symbols
    BY DEF Cached
  <1>2. IsFiniteSet(Cached)
    BY <1>1, FeatureAssumption, FS_Subset
  <1> QED BY <1>2, FS_CardinalityType

LEMMA FeatureStarts == FeatureInit => FeatureIInv
  <1> SUFFICES ASSUME FeatureInit PROVE FeatureIInv
    OBVIOUS
  <1> DEFINE x == Idle(CHOOSE s \in Symbols : TRUE)
  <1>1. (CHOOSE s \in Symbols : TRUE) \in Symbols
    BY FeatureAssumption
  <1>2. x \in RequestType /\ x.pc = "idle"
    BY <1>1 DEF Idle, RequestType, Ages
  <1>3. NoEntry \in EntryType /\ NoEntry.at = -1
    BY DEF NoEntry, EntryType, Ages
  <1>4. clock = 0 /\ cache = [s \in Symbols |-> NoEntry]
    BY DEF FeatureInit
  <1>5. request = [q \in Requests |-> x]
    BY DEF FeatureInit
  <1> HIDE DEF x
  <1>6. FeatureTypes
    BY <1>2, <1>3, <1>4, <1>5 DEF FeatureTypes
  <1>7. Ageing
    BY <1>2, <1>3, <1>4, <1>5 DEF Ageing, Dated, Aged
  <1>8. CacheBounded
    <2>1. Cached = {}
      BY <1>3, <1>4 DEF Cached
    <2> QED BY <2>1, FS_EmptySet, FeatureAssumption DEF CacheBounded
  <1> QED BY <1>6, <1>7, <1>8 DEF FeatureIInv

\* One request changes and nothing else does.
LEMMA RequestMoves ==
    ASSUME FeatureIInv, NEW q \in Requests, NEW x \in RequestType, Aged(x),
           request' = [request EXCEPT ![q] = x],
           clock' = clock, cache' = cache
    PROVE  FeatureIInv'
  <1> USE DEF FeatureIInv
  <1>1. request' \in [Requests -> RequestType] /\ request'[q] = x
        /\ \A p \in Requests \ {q} : request'[p] = request[p]
    BY DEF FeatureTypes
  <1>2. FeatureTypes'
    BY <1>1 DEF FeatureTypes
  <1>3. \A p \in Requests : Aged(request[p])'
    BY <1>1 DEF Ageing, Aged
  <1>4. \A s \in Symbols : Dated(cache[s])'
    BY DEF Ageing, Dated
  <1>5. CacheBounded'
    BY DEF CacheBounded, Cached
  <1> QED BY <1>2, <1>3, <1>4, <1>5 DEF Ageing

LEMMA BarsMove ==
    ASSUME FeatureIInv, NEW changed \in SUBSET Symbols, BarsChange(changed)
    PROVE  FeatureIInv'
  <1> USE DEF FeatureIInv
  <1>1. /\ clock \in Nat /\ clock' = clock /\ clock \in Ages
        /\ \A s \in Symbols : cache[s] \in EntryType
        /\ \A q \in Requests : request[q] \in RequestType
        /\ \A s \in Symbols : cache[s].at \in Nat \cup {-1}
    BY DEF FeatureTypes, BarsChange, Ages
  <1>2. ASSUME NEW e \in EntryType, Dated(e), NEW s \in Symbols,
               e.at \in Nat \cup {-1}
        PROVE  LET f == Outdated(e, changed, s)
               IN f \in EntryType /\ f.at = e.at /\ Dated(f)
    BY <1>1, <1>2 DEF Outdated, EntryType, Dated
  <1>3. ASSUME NEW x \in RequestType, Aged(x), x.pc \in {"computed", "answered"}
        PROVE  LET y == Outdated(x, changed, x.symbol)
               IN y \in RequestType /\ Aged(y)
    <2>1. CASE x.symbol \in changed /\ x.since = Fresh
      <3> DEFINE y == [x EXCEPT !.since = clock]
      <3>1. /\ y \in RequestType /\ y.pc = x.pc /\ y.now = x.now /\ y.since = clock
            /\ x.now \in Nat
        BY <1>1 DEF RequestType
      <3>2. Outdated(x, changed, x.symbol) = y
        BY <2>1 DEF Outdated
      <3> HIDE DEF y
      <3>3. Aged(y)
        BY <1>1, <1>3, <3>1, FeatureAssumption DEF Aged
      <3> QED BY <3>1, <3>2, <3>3
    <2>2. CASE ~(x.symbol \in changed /\ x.since = Fresh)
      BY <1>3, <2>2 DEF Outdated
    <2> QED BY <2>1, <2>2
  <1>4. ASSUME NEW s \in Symbols
        PROVE  cache'[s] \in EntryType /\ cache'[s].at = cache[s].at /\ Dated(cache'[s])
    <2>1. Dated(cache[s])
      BY DEF Ageing
    <2>2. cache'[s] = IF s \in Cached THEN Outdated(cache[s], changed, s) ELSE cache[s]
      BY DEF BarsChange
    <2> QED BY <1>1, <1>2, <2>1, <2>2
  <1>5. ASSUME NEW q \in Requests
        PROVE  request'[q] \in RequestType /\ Aged(request'[q])
    <2>1. Aged(request[q])
      BY DEF Ageing
    <2>2. request'[q] = IF request[q].pc \in {"computed", "answered"}
                        THEN Outdated(request[q], changed, request[q].symbol)
                        ELSE request[q]
      BY DEF BarsChange
    <2> QED BY <1>1, <1>3, <2>1, <2>2
  <1>6. DOMAIN cache' = Symbols /\ DOMAIN request' = Requests
        /\ cache' = [s \in Symbols |-> cache'[s]] /\ request' = [q \in Requests |-> request'[q]]
    BY DEF BarsChange
  <1>7. FeatureTypes'
    BY <1>1, <1>4, <1>5, <1>6 DEF FeatureTypes
  <1>8. Ageing'
    BY <1>1, <1>4, <1>5 DEF Ageing, Dated, Aged
  <1>9. CacheBounded'
    <2>1. Cached' = Cached
      BY <1>4 DEF Cached
    <2> QED BY <2>1 DEF CacheBounded
  <1> QED BY <1>7, <1>8, <1>9

\* What a full cache loses makes room for what is put.
LEMMA PutFits ==
    ASSUME FeatureIInv, NEW q \in Requests, request[q].pc = "computed", Put(q, request[q].now)
    PROVE  /\ cache' \in [Symbols -> EntryType]
           /\ \A s \in Symbols : cache'[s].at \in Nat \cup {-1} /\ Dated(cache'[s])
           /\ CacheBounded'
  <1> USE DEF FeatureIInv
  <1> DEFINE s == request[q].symbol
             e == [at |-> request[q].now, since |-> request[q].since]
  <1>1. /\ s \in Symbols /\ request[q].now \in Nat /\ request[q].since \in Ages
        /\ cache \in [Symbols -> EntryType]
        /\ \A t \in Symbols : cache[t].at \in Nat \cup {-1} /\ Dated(cache[t])
    BY DEF FeatureTypes, RequestType, Ageing
  <1>2. Aged(request[q])
    BY DEF Ageing
  <1>3. e \in EntryType /\ e.at \in Nat /\ Dated(e)
    BY <1>1, <1>2 DEF EntryType, Dated, Aged
  <1>4. NoEntry \in EntryType /\ NoEntry.at = -1 /\ Dated(NoEntry)
    BY DEF NoEntry, EntryType, Ages, Dated
  <1>5. \/ Cardinality(Cached) < CacheMax /\ cache' = [cache EXCEPT ![s] = e]
        \/ \E o \in Cached : cache' = [cache EXCEPT ![o] = NoEntry, ![s] = e]
    BY DEF Put, Oldest
  <1> HIDE DEF s, e
  <1>6. CASE Cardinality(Cached) < CacheMax /\ cache' = [cache EXCEPT ![s] = e]
    <2>1. /\ cache' \in [Symbols -> EntryType]
          /\ \A t \in Symbols : cache'[t] = IF t = s THEN e ELSE cache[t]
      BY <1>1, <1>3, <1>6
    <2>2. Cached' = Cached \cup {s}
      BY <1>1, <1>3, <2>1 DEF Cached
    <2>3. Cardinality(Cached') <= Cardinality(Cached) + 1
      <3>1. s \in Cached => Cached' = Cached
        BY <2>2
      <3>2. s \notin Cached => Cardinality(Cached') = Cardinality(Cached) + 1
        BY <2>2, CachedIsFinite, FS_AddElement
      <3> QED BY <3>1, <3>2, CachedIsFinite
    <2>4. CacheBounded'
      <3>1. Cardinality(Cached') \in Nat
        BY <2>2, CachedIsFinite, FS_AddElement, FS_CardinalityType
      <3> QED BY <1>6, <2>3, <3>1, CachedIsFinite, FeatureAssumption DEF CacheBounded
    <2> QED BY <1>1, <1>3, <2>1, <2>4
  <1>7. CASE \E o \in Cached : cache' = [cache EXCEPT ![o] = NoEntry, ![s] = e]
    <2>1. PICK o \in Cached : cache' = [cache EXCEPT ![o] = NoEntry, ![s] = e]
      BY <1>7
    <2>2. o \in Symbols
      BY DEF Cached
    <2>3. /\ cache' \in [Symbols -> EntryType]
          /\ \A t \in Symbols :
                cache'[t] = IF t = s THEN e ELSE IF t = o THEN NoEntry ELSE cache[t]
      BY <1>1, <1>3, <1>4, <2>1, <2>2
    <2> DEFINE rest == Cached \ {o}
    <2>4. Cached' = rest \cup {s}
      BY <1>1, <1>3, <1>4, <2>2, <2>3 DEF Cached
    <2>5. IsFiniteSet(rest) /\ Cardinality(rest) = Cardinality(Cached) - 1
      BY CachedIsFinite, FS_RemoveElement
    <2> HIDE DEF rest
    <2>6. Cardinality(rest \cup {s}) <= Cardinality(rest) + 1
      <3>1. s \in rest => rest \cup {s} = rest
        OBVIOUS
      <3>2. s \notin rest => Cardinality(rest \cup {s}) = Cardinality(rest) + 1
        BY <2>5, FS_AddElement
      <3>3. Cardinality(rest) \in Nat
        BY <2>5, FS_CardinalityType
      <3> QED BY <3>1, <3>2, <3>3
    <2>7. IsFiniteSet(rest \cup {s}) /\ Cardinality(rest \cup {s}) \in Nat
      BY <2>5, FS_AddElement, FS_CardinalityType
    <2>8. CacheBounded'
      BY <2>4, <2>5, <2>6, <2>7, CachedIsFinite, FeatureAssumption DEF CacheBounded
    <2> QED BY <1>1, <1>3, <1>4, <2>3, <2>8
  <1> QED BY <1>5, <1>6, <1>7

LEMMA FeatureMoves ==
    ASSUME FeatureIInv, FeatureStep
    PROVE  FeatureIInv'
  <1> USE DEF FeatureIInv
  <1>0. /\ \A q \in Requests : request[q] \in RequestType /\ Aged(request[q])
        /\ \A s \in Symbols : cache[s] \in EntryType /\ Dated(cache[s])
                              /\ cache[s].at \in Nat \cup {-1}
        /\ clock \in Nat
    BY DEF FeatureTypes, Ageing
  <1>1. \A s \in Symbols : Idle(s) \in RequestType /\ Aged(Idle(s)) /\ Idle(s).pc = "idle"
    BY DEF Idle, RequestType, Ages, Aged
  <1>2. CASE Tick
    <2>1. /\ clock' \in Nat /\ clock' >= clock /\ cache' = cache /\ request' = request
      BY <1>0, <1>2 DEF Tick
    <2>2. FeatureTypes' /\ CacheBounded'
      BY <2>1 DEF FeatureTypes, CacheBounded, Cached
    <2>3. ASSUME NEW s \in Symbols PROVE Dated(cache[s])'
      <3>1. Dated(cache[s]) /\ cache[s].at \in Nat \cup {-1}
        BY <1>0
      <3> QED BY <1>0, <2>1, <3>1 DEF Dated
    <2>4. ASSUME NEW q \in Requests PROVE Aged(request[q])'
      <3>1. Aged(request[q]) /\ request[q].now \in Nat
        BY <1>0 DEF RequestType
      <3> QED BY <1>0, <2>1, <3>1 DEF Aged
    <2> QED BY <2>2, <2>3, <2>4 DEF Ageing
  <1>3. CASE RestartFeatures
    <2>1. NoEntry \in EntryType /\ NoEntry.at = -1
      BY DEF NoEntry, EntryType, Ages
    <2>2. /\ cache' = [s \in Symbols |-> NoEntry] /\ clock' = clock
          /\ request' = [q \in Requests |-> Idle(request[q].symbol)]
      BY <1>3 DEF RestartFeatures
    <2>3. \A q \in Requests : request[q].symbol \in Symbols
      BY <1>0 DEF RequestType
    <2>4. FeatureTypes'
      BY <1>0, <1>1, <2>1, <2>2, <2>3 DEF FeatureTypes
    <2>5. Ageing'
      BY <1>0, <1>1, <2>1, <2>2, <2>3 DEF Ageing, Dated, Aged
    <2>6. Cached' = {}
      BY <2>1, <2>2 DEF Cached
    <2> QED BY <2>4, <2>5, <2>6, FS_EmptySet, FeatureAssumption DEF CacheBounded
  <1>4. ASSUME NEW q \in Requests, NEW s \in Symbols, Arrive(q, s) PROVE FeatureIInv'
    <2> DEFINE x == [pc |-> "arrived", symbol |-> s, now |-> clock, since |-> Fresh]
    <2>1. x \in RequestType /\ Aged(x)
      BY <1>0 DEF RequestType, Ages, Aged
    <2>2. request' = [request EXCEPT ![q] = x] /\ clock' = clock /\ cache' = cache
      BY <1>4 DEF Arrive
    <2> QED BY <1>0, <2>1, <2>2, RequestMoves
  <1>5. ASSUME NEW q \in Requests, NEW s \in Symbols, BeginBuild(q, s) PROVE FeatureIInv'
    <2> DEFINE x == [request[q] EXCEPT !.pc = "building", !.symbol = s]
    <2>1. x \in RequestType /\ Aged(x)
      BY <1>0 DEF RequestType, Aged
    <2>2. request' = [request EXCEPT ![q] = x] /\ clock' = clock /\ cache' = cache
      BY <1>5 DEF BeginBuild
    <2> QED BY <1>0, <2>1, <2>2, RequestMoves
  <1>6. ASSUME NEW q \in Requests, LookUp(q) PROVE FeatureIInv'
    <2> DEFINE e == cache[request[q].symbol]
               hit == e.at # -1 /\ request[q].now - e.at < TTL
               x == [request[q] EXCEPT !.pc = IF hit THEN "answered" ELSE "missed",
                                       !.since = IF hit THEN e.since ELSE Fresh]
    <2>1. /\ request[q] \in RequestType /\ Aged(request[q]) /\ request[q].pc = "arrived"
          /\ e \in EntryType /\ Dated(e) /\ e.at \in Nat \cup {-1}
      BY <1>0, <1>6 DEF LookUp, RequestType
    <2>2. request' = [request EXCEPT ![q] = x] /\ clock' = clock /\ cache' = cache
      BY <1>6 DEF LookUp
    <2>3. /\ e.since \in Ages /\ Fresh \in Ages
          /\ request[q].now \in Nat /\ request[q].now <= clock
      BY <2>1 DEF EntryType, RequestType, Ages, Aged
    <2> HIDE DEF e
    <2>4. CASE hit
      <3>1. /\ x \in RequestType /\ x.pc = "answered" /\ x.since = e.since
            /\ x.now = request[q].now
        BY <2>1, <2>3, <2>4 DEF RequestType
      <3>2. x.since # Fresh => e.at <= x.since /\ x.since \in Nat
        BY <2>1, <2>3, <2>4, <3>1 DEF Dated, Ages
      <3>3. /\ e.at \in Nat /\ request[q].now - e.at < TTL /\ TTL \in Nat
        BY <2>1, <2>4, FeatureAssumption
      <3> HIDE DEF x
      <3>4. Aged(x)
        BY <1>0, <2>3, <3>1, <3>2, <3>3 DEF Aged
      <3> QED BY <1>0, <2>2, <3>1, <3>4, RequestMoves
    <2>5. CASE ~hit
      <3>1. /\ x \in RequestType /\ x.pc = "missed" /\ x.since = Fresh
            /\ x.now = request[q].now
        BY <2>1, <2>3, <2>5 DEF RequestType
      <3> HIDE DEF x
      <3>2. Aged(x)
        BY <2>3, <3>1 DEF Aged
      <3> QED BY <1>0, <2>2, <3>1, <3>2, RequestMoves
    <2> QED BY <2>4, <2>5
  <1>7. ASSUME NEW q \in Requests, ReadBars(q) PROVE FeatureIInv'
    <2> DEFINE x == [request[q] EXCEPT !.pc = "computed"]
    <2>1. /\ request[q] \in RequestType /\ Aged(request[q]) /\ request[q].pc = "missed"
          /\ request' = [request EXCEPT ![q] = x]
          /\ clock' = clock /\ cache' = cache
      BY <1>0, <1>7 DEF ReadBars
    <2>2. x \in RequestType /\ Aged(x)
      BY <2>1 DEF RequestType, Aged
    <2> QED BY <1>0, <2>1, <2>2, RequestMoves
  <1>8. ASSUME NEW q \in Requests, Answer(q) PROVE FeatureIInv'
    <2> DEFINE x == [request[q] EXCEPT !.pc = "answered"]
    <2>1. /\ request[q] \in RequestType /\ Aged(request[q]) /\ request[q].pc = "computed"
          /\ request' = [request EXCEPT ![q] = x]
          /\ clock' = clock /\ Put(q, request[q].now)
      BY <1>0, <1>8 DEF Answer
    <2>2. /\ x \in RequestType /\ x.pc = "answered" /\ x.now = request[q].now
          /\ x.since = request[q].since /\ x.now \in Nat /\ x.since \in Ages
      BY <2>1 DEF RequestType
    <2> HIDE DEF x
    <2>3. x.since # Fresh => x.since \in Nat /\ x.now <= x.since
      BY <2>1, <2>2 DEF Aged, Ages
    <2>4. Aged(x)
      BY <2>1, <2>2, <2>3, FeatureAssumption DEF Aged
    <2>5. /\ cache' \in [Symbols -> EntryType]
          /\ \A s \in Symbols : cache'[s].at \in Nat \cup {-1} /\ Dated(cache'[s])
          /\ CacheBounded'
      BY <2>1, PutFits
    <2>6. request' \in [Requests -> RequestType]
          /\ \A p \in Requests : request'[p] = IF p = q THEN x ELSE request[p]
      BY <2>1, <2>2 DEF FeatureTypes
    <2>7. FeatureTypes'
      BY <1>0, <2>1, <2>5, <2>6 DEF FeatureTypes
    <2>8. Ageing'
      BY <1>0, <2>1, <2>4, <2>5, <2>6 DEF Ageing, Dated, Aged
    <2> QED BY <2>5, <2>7, <2>8
  <1>9. ASSUME NEW q \in Requests, Finish(q) \/ BuildFails(q) PROVE FeatureIInv'
    <2> DEFINE x == Idle(request[q].symbol)
    <2>1. request[q].symbol \in Symbols
      BY <1>0 DEF RequestType
    <2>2. x \in RequestType /\ Aged(x)
      BY <1>1, <2>1
    <2>3. request' = [request EXCEPT ![q] = x] /\ clock' = clock /\ cache' = cache
      BY <1>0, <1>9, <2>1 DEF Finish, BuildFails, FeatureTypes
    <2> QED BY <2>2, <2>3, RequestMoves
  <1>10. ASSUME NEW q \in Requests, UpsertFeatures(q) PROVE FeatureIInv'
    <2> DEFINE x == [request[q] EXCEPT !.pc = "stored"]
    <2>1. /\ request[q] \in RequestType /\ request[q].symbol \in Symbols
          /\ request' = [request EXCEPT ![q] = x]
          /\ clock' = clock /\ cache' = cache
      BY <1>0, <1>10 DEF UpsertFeatures, RequestType
    <2>2. x \in RequestType /\ Aged(x)
      BY <2>1 DEF RequestType, Aged
    <2> QED BY <1>0, <2>1, <2>2, RequestMoves
  <1>11. ASSUME NEW q \in Requests, Invalidate(q) PROVE FeatureIInv'
    <2> DEFINE x == Idle(request[q].symbol)
               s == request[q].symbol
    <2>1. /\ s \in Symbols /\ cache' = [cache EXCEPT ![s] = NoEntry]
          /\ request' = [request EXCEPT ![q] = x] /\ clock' = clock
      BY <1>0, <1>11 DEF Invalidate, RequestType, FeatureTypes
    <2>2. x \in RequestType /\ Aged(x)
      BY <1>1, <2>1
    <2>3. NoEntry \in EntryType /\ NoEntry.at = -1 /\ Dated(NoEntry)
      BY DEF NoEntry, EntryType, Ages, Dated
    <2> HIDE DEF x, s
    <2>4. /\ cache' \in [Symbols -> EntryType]
          /\ \A t \in Symbols : cache'[t] = IF t = s THEN NoEntry ELSE cache[t]
      BY <2>1, <2>3 DEF FeatureTypes
    <2>5. request' \in [Requests -> RequestType]
          /\ \A p \in Requests : request'[p] = IF p = q THEN x ELSE request[p]
      BY <2>1, <2>2 DEF FeatureTypes
    <2>6. FeatureTypes'
      BY <1>0, <2>1, <2>3, <2>4, <2>5 DEF FeatureTypes
    <2>7. Ageing'
      BY <1>0, <2>1, <2>2, <2>3, <2>4, <2>5 DEF Ageing, Dated, Aged
    <2>8. Cached' \subseteq Cached
      BY <2>3, <2>4 DEF Cached
    <2>9. Cardinality(Cached') <= Cardinality(Cached) /\ Cardinality(Cached') \in Nat
      BY <2>8, CachedIsFinite, FS_Subset, FS_CardinalityType
    <2>10. CacheBounded'
      BY <2>9, CachedIsFinite, FeatureAssumption DEF CacheBounded
    <2> QED BY <2>6, <2>7, <2>10
  <1> QED BY <1>2, <1>3, <1>4, <1>5, <1>6, <1>7, <1>8, <1>9, <1>10, <1>11 DEF FeatureStep

-----------------------------------------------------------------------------
(* The two together.                                                       *)

LEMMA IngestStutters == IngestIInv /\ UNCHANGED ingestVars => IngestIInv'
  BY DEF IngestIInv, IngestTypes, InStep, LoadIsTrue, ingestVars

LEMMA FeatureStutters == FeatureIInv /\ UNCHANGED featureVars => FeatureIInv'
  BY DEF FeatureIInv, FeatureTypes, Ageing, Dated, Aged, CacheBounded, Cached, featureVars

LEMMA StepIInv == IngestIInv /\ FeatureIInv /\ [Next]_vars => IngestIInv' /\ FeatureIInv'
  <1> SUFFICES ASSUME IngestIInv, FeatureIInv, [Next]_vars
               PROVE  IngestIInv' /\ FeatureIInv'
    OBVIOUS
  <1>1. CASE IngestStep
    <2>1. ScriptStep
      BY <1>1 DEF IngestStep, ScriptStep
    <2>2. UNCHANGED featureVars \/ \E changed \in SUBSET Symbols : BarsChange(changed)
      BY <1>1 DEF IngestStep
    <2> QED BY <2>1, <2>2, IngestMoves, BarsMove, FeatureStutters
  <1>2. CASE \E s \in Symbols : Backfill(s)
    <2>1. PICK s \in Symbols : Backfill(s)
      BY <1>2
    <2>2. {s} \in SUBSET Symbols /\ BarsChange({s}) /\ UNCHANGED ingestVars
      BY <2>1 DEF Backfill
    <2> QED BY <2>2, IngestStutters, BarsMove
  <1>3. CASE FeatureStep /\ UNCHANGED ingestVars
    BY <1>3, FeatureMoves, IngestStutters
  <1>4. CASE UNCHANGED vars
    BY <1>4, IngestStutters, FeatureStutters DEF vars
  <1> QED BY <1>1, <1>2, <1>3, <1>4 DEF Next

LEMMA Invariants == Spec => [](IngestIInv /\ FeatureIInv)
  <1>1. Init => IngestIInv /\ FeatureIInv
    BY IngestStarts, FeatureStarts DEF Init
  <1> QED BY <1>1, StepIInv, PTL DEF Spec

\* Script, cache and requests keep to the states the code gives them: the
\* script is never at a chunk its file does not have (UpsertChunk).
THEOREM MarketDataTypes == Spec => []TypeOK
  <1>1. IngestIInv /\ FeatureIInv => TypeOK
    BY DEF IngestIInv, FeatureIInv, TypeOK
  <1> QED BY <1>1, Invariants, PTL

\* A run of the script tells of every chosen table it is past and of no other,
\* and a table that it says is "ok" has all its rows unless the run was a dry
\* one, through failures, kills and reruns.
THEOREM LoadsAreTrue == Spec => []LoadIsTrue
  <1>1. IngestIInv => LoadIsTrue
    BY DEF IngestIInv
  <1> QED BY <1>1, Invariants, PTL

\* The cache keeps to its size, with any number of threads putting into it.
THEOREM CacheIsBounded == Spec => []CacheBounded
  <1>1. FeatureIInv => CacheBounded
    BY DEF FeatureIInv
  <1> QED BY <1>1, Invariants, PTL

\* An answer of feature-builder is of bars that were current less than a TTL
\* before its request arrived, whatever other threads put and drop meanwhile.
THEOREM AnswersAreFresh == Spec => []ServedIsFresh
  <1>1. FeatureIInv => ServedIsFresh
    BY DEF FeatureIInv, Ageing, Aged, ServedIsFresh
  <1> QED BY <1>1, Invariants, PTL

-----------------------------------------------------------------------------
(* A run of the script, from its start to its end.                         *)

\* A run that is through with its tables, stores what it reads, was not to skip
\* any and tells of no error, has left every table it was to load complete.
FullRunLoads ==
    loader.table > Len(Size) /\ ~loader.resume /\ ~loader.dry
    /\ (\A t \in Tables : outcome[t] # "error")
        => \A t \in loader.tables : loaded[t] = Size[t]

\* Rows are never taken back, and a dry run adds none; a run goes on to a later
\* chunk or a later table until it stops, and its end is not farther than the
\* files and their chunks.
IngestGoesForward ==
    /\ \A t \in Tables : loaded[t] <= loaded'[t]
    /\ loader.dry => loaded' = loaded
    /\ loader.table # 0 /\ loader' # loader =>
          \/ loader' = NoLoader
          \/ loader'.table > loader.table
          \/ loader'.table = loader.table /\ loader'.chunk = loader.chunk + 1
    /\ loader.table <= Len(Size) + 1
    /\ loader.table \in Tables => loader.chunk <= Size[loader.table] + 1

\* A run of the script that has come to its end and tells of no error has loaded
\* all it was to load, after however many runs before it that failed or were
\* killed; with --resume or --dry-run the end of a run says no such thing.
THEOREM FullRunsLoad == Spec => []FullRunLoads
  <1>1. ASSUME IngestIInv PROVE FullRunLoads
    <2>1. SUFFICES ASSUME loader.table > Len(Size), ~loader.resume, ~loader.dry,
                          \A u \in Tables : outcome[u] # "error",
                          NEW t \in loader.tables
                   PROVE  loaded[t] = Size[t]
      BY DEF FullRunLoads
    <2>2. /\ t \in Tables /\ loader.table \in Nat /\ Len(Size) \in Nat /\ t \in Nat
          /\ t <= Len(Size) /\ outcome[t] \in {"none", "ok", "skipped", "error"}
      BY <1>1, SizesAreNatural DEF IngestIInv, IngestTypes, LoaderType, Tables
    <2>3. outcome[t] # "none"
      BY <1>1, <2>1, <2>2 DEF IngestIInv, LoadIsTrue
    <2>4. outcome[t] = "ok"
      BY <1>1, <2>1, <2>2, <2>3, ScriptFacts
    <2> QED BY <1>1, <2>1, <2>2, <2>4 DEF IngestIInv, LoadIsTrue
  <1> QED BY <1>1, Invariants, PTL

\* Ingestion never goes back: rows stay, and a run comes to its end.
THEOREM IngestionGoesForward == Spec => [][IngestGoesForward]_vars
  <1>1. ASSUME IngestIInv, [Next]_vars PROVE IngestGoesForward
    <2>1. /\ \A t \in Tables : loaded[t] \in Nat
          /\ loader.table <= Len(Size) + 1
          /\ loader.table \in Tables => loader.chunk <= Size[loader.table] + 1
          /\ NoLoader.table = 0
      BY <1>1 DEF IngestIInv, IngestTypes, NoLoader
    <2>2. CASE UNCHANGED ingestVars
      BY <2>1, <2>2 DEF ingestVars, IngestGoesForward
    <2>3. CASE ScriptStep
      <3>1. Grows /\ LoaderMoves
        BY <1>1, <2>3, IngestMoves
      <3> QED BY <2>1, <3>1 DEF Grows, LoaderMoves, IngestGoesForward
    <2>4. ScriptStep \/ UNCHANGED ingestVars
      BY <1>1 DEF Next, IngestStep, Backfill, ScriptStep, vars
    <2> QED BY <2>2, <2>3, <2>4
  <1> QED BY <1>1, Invariants, PTL DEF Spec
=============================================================================
