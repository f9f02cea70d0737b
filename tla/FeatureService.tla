---------------------------- MODULE FeatureService ----------------------------
(***************************************************************************)
(* feature-builder: GET /features/latest/{symbol}, which strategy-runner   *)
(* polls, with its cache of the latest features of a symbol, and the two   *)
(* handlers that compute feature rows and drop a symbol from the cache.    *)
(*                                                                         *)
(* Handlers run in threads of their own.  A request takes the time, looks  *)
(* into the cache under its lock, and if it has to, reads bars, computes,  *)
(* and puts its result under the lock with the time that it took first: by *)
(* then the bars may have changed and the symbol may have been dropped.    *)
(* What bars hold is abstracted to whether they have changed, and when,    *)
(* since a result was computed from them.                                  *)
(*                                                                         *)
(* Operators named Mutant... are slips of the definition that follows them *)
(* and are used by no definition.                                          *)
(***************************************************************************)
EXTENDS Integers, FiniteSets

CONSTANTS Symbols,
          Requests, \* requests under way at a time
          TTL,      \* _LATEST_CACHE_TTL
          CacheMax, \* _CACHE_MAX_SIZE
          MaxClock, \* bound on the clock
          Fresh     \* the bars have not changed since

ASSUME FeatureAssumption ==
    /\ TTL \in Nat \ {0} /\ CacheMax \in Nat \ {0} /\ MaxClock \in Nat
    /\ IsFiniteSet(Symbols) /\ Symbols # {}
    /\ Fresh \notin Nat

VARIABLES clock,
          cache,   \* _latest_cache: the time of an entry, or -1, and since
                   \* when its bars are out of date
          request  \* what the threads are at

featureVars == <<clock, cache, request>>

Ages == {Fresh} \cup Nat

EntryType   == [at : Int, since : Ages]
RequestType == [pc : {"idle", "arrived", "missed", "computed", "answered", "building", "stored"},
                symbol : Symbols, now : Nat, since : Ages]

FeatureTypes ==
    /\ clock \in Nat
    /\ cache \in [Symbols -> EntryType]
    /\ \A s \in Symbols : cache[s].at \in Nat \cup {-1}
    /\ request \in [Requests -> RequestType]

NoEntry == [at |-> -1, since |-> Fresh]
Idle(s) == [pc |-> "idle", symbol |-> s, now |-> 0, since |-> Fresh]

FeatureInit ==
    /\ clock = 0
    /\ cache = [s \in Symbols |-> NoEntry]
    /\ request = [q \in Requests |-> Idle(CHOOSE s \in Symbols : TRUE)]

Cached == {s \in Symbols : cache[s].at # -1}

-----------------------------------------------------------------------------
\* The bars of symbols change: results from them are out of date from now on.
Outdated(x, changed, s) == IF s \in changed /\ x.since = Fresh THEN [x EXCEPT !.since = clock] ELSE x

BarsChange(changed) ==
    /\ cache' = [s \in Symbols |->
                   IF s \in Cached THEN Outdated(cache[s], changed, s) ELSE cache[s]]
    /\ request' = [q \in Requests |->
                     IF request[q].pc \in {"computed", "answered"}
                     THEN Outdated(request[q], changed, request[q].symbol)
                     ELSE request[q]]
    /\ UNCHANGED clock

Tick == clock < MaxClock /\ clock' = clock + 1 /\ UNCHANGED <<cache, request>>

-----------------------------------------------------------------------------
(* GET /features/latest/{symbol}                                           *)

Arrive(q, s) ==
    /\ request[q].pc = "idle"
    /\ request' = [request EXCEPT ![q] = [pc |-> "arrived", symbol |-> s, now |-> clock,
                                          since |-> Fresh]]
    /\ UNCHANGED <<clock, cache>>

\* An entry is found, and it is younger than TTL at the time of arrival.
LookUp(q) ==
    LET e == cache[request[q].symbol]
        hit == e.at # -1 /\ request[q].now - e.at < TTL
    IN  /\ request[q].pc = "arrived"
        /\ request' = [request EXCEPT ![q].pc = IF hit THEN "answered" ELSE "missed",
                                      ![q].since = IF hit THEN e.since ELSE Fresh]
        /\ UNCHANGED <<clock, cache>>

\* The bars are read, and enough of them.
ReadBars(q) ==
    /\ request[q].pc = "missed"
    /\ request' = [request EXCEPT ![q].pc = "computed"]
    /\ UNCHANGED <<clock, cache>>

\* The oldest entry of a full cache goes, also when the symbol has one itself.
Oldest == {s \in Cached : \A t \in Cached : cache[s].at <= cache[t].at}

\* A full cache takes one more.
MutantPut(q, at) ==
    LET s == request[q].symbol
        e == [at |-> at, since |-> request[q].since]
    IN  IF Cardinality(Cached) <= CacheMax
        THEN cache' = [cache EXCEPT ![s] = e]
        ELSE \E o \in Oldest : cache' = [cache EXCEPT ![o] = NoEntry, ![s] = e]

Put(q, at) ==
    LET s == request[q].symbol
        e == [at |-> at, since |-> request[q].since]
    IN  IF Cardinality(Cached) < CacheMax
        THEN cache' = [cache EXCEPT ![s] = e]
        ELSE \E o \in Oldest : cache' = [cache EXCEPT ![o] = NoEntry, ![s] = e]

\* The entry is dated when it is put.
MutantAnswer(q) ==
    /\ request[q].pc = "computed"
    /\ Put(q, clock)
    /\ request' = [request EXCEPT ![q].pc = "answered"]
    /\ UNCHANGED clock

Answer(q) ==
    /\ request[q].pc = "computed"
    /\ Put(q, request[q].now)
    /\ request' = [request EXCEPT ![q].pc = "answered"]
    /\ UNCHANGED clock

\* 404, 500 or 503, or an answer that has been sent.
Finish(q) ==
    /\ request[q].pc \notin {"idle", "building", "stored"}
    /\ request' = [request EXCEPT ![q] = Idle(@.symbol)]
    /\ UNCHANGED <<clock, cache>>

-----------------------------------------------------------------------------
(* POST /features/build and /features/compute, for one symbol of several   *)

BeginBuild(q, s) ==
    /\ request[q].pc = "idle"
    /\ request' = [request EXCEPT ![q].pc = "building", ![q].symbol = s]
    /\ UNCHANGED <<clock, cache>>

\* Bars are read and the rows computed from them are upserted; feature_row
\* itself is not kept, for no step here reads it.
UpsertFeatures(q) ==
    /\ request[q].pc = "building"
    /\ request' = [request EXCEPT ![q].pc = "stored"]
    /\ UNCHANGED <<clock, cache>>

Invalidate(q) ==
    /\ request[q].pc = "stored"
    /\ cache' = [cache EXCEPT ![request[q].symbol] = NoEntry]
    /\ request' = [request EXCEPT ![q] = Idle(@.symbol)]
    /\ UNCHANGED clock

\* Too few bars, or an error that only that symbol's result tells of; the rows
\* may have been stored all the same.
BuildFails(q) ==
    /\ request[q].pc = "building"
    /\ request' = [request EXCEPT ![q] = Idle(@.symbol)]
    /\ UNCHANGED <<clock, cache>>

\* The cache and the threads are gone.
RestartFeatures ==
    /\ cache' = [s \in Symbols |-> NoEntry]
    /\ request' = [q \in Requests |-> Idle(request[q].symbol)]
    /\ UNCHANGED clock

FeatureStep ==
    \/ Tick \/ RestartFeatures
    \/ \E q \in Requests :
          \/ \E s \in Symbols : Arrive(q, s) \/ BeginBuild(q, s)
          \/ LookUp(q) \/ ReadBars(q) \/ Answer(q) \/ Finish(q)
          \/ UpsertFeatures(q) \/ Invalidate(q) \/ BuildFails(q)

-----------------------------------------------------------------------------
(* Properties                                                              *)

\* The cache never holds more than _CACHE_MAX_SIZE symbols.
CacheBounded == Cardinality(Cached) <= CacheMax

\* Whoever computes, puts, drops and evicts in whatever order: an answer is of
\* bars that were current less than a TTL before the request arrived.
ServedIsFresh ==
    \A q \in Requests :
        request[q].pc = "answered" /\ request[q].since # Fresh =>
            request[q].now - request[q].since < TTL
=============================================================================
