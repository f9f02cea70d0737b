-------------------------- MODULE DatasetStoreProofs --------------------------
(***************************************************************************)
(* Theorems about the datasets, for any number of requests, any configs    *)
(* and any number of dates.                                                *)
(***************************************************************************)
EXTENDS DatasetStore, TLAPS

-----------------------------------------------------------------------------
(* Division, as far as the split arithmetic needs it.                      *)

LEMMA QuotientBounds ==
    \A a \in Nat, b \in Nat \ {0} : a \div b \in Nat /\ a \div b <= a /\ a \div 1 = a
  OBVIOUS

LEMMA QuotientGrows ==
    \A a, b \in Nat, q \in Nat \ {0} : a <= b => a \div q <= b \div q
  OBVIOUS

LEMMA QuotientShrinks ==
    \A a \in Nat, q \in Nat \ {0} : a \div (q + 1) <= a \div q
  OBVIOUS

LEMMA QuotientLags ==
    \A a, d \in Nat, q \in Nat \ {0} : (a + d) \div q <= a \div q + d
  OBVIOUS

\* Where training ends: on a date that leaves one to test on, and never before
\* the split that precedes it.
LEMMA TrainEnds ==
    ASSUME NEW c \in Configs, NEW n \in Nat, n >= 2, NEW i \in 1 .. c.splits
    PROVE  /\ TrainEnd(c, n, i) \in 0 .. n - 2
           /\ i < c.splits => TrainEnd(c, n, i) <= TrainEnd(c, n, i + 1)
  <1> DEFINE q == c.den * c.splits
             a == n * c.num * i
             b == n * c.num * (i + 1)
  <1>1. /\ c.splits \in Nat \ {0} /\ c.num \in Nat /\ c.den \in Nat \ {0}
        /\ i \in Nat
    BY DatasetAssumption
  <1>2. q \in Nat \ {0}
    BY <1>1
  <1>3. n * c.num \in Nat
    BY <1>1
  <1>4. a \in Nat /\ b \in Nat /\ a <= b
    BY <1>1, <1>3
  <1>5. a \div q \in Nat /\ b \div q \in Nat /\ a \div q <= b \div q
    <2> HIDE DEF a, b, q
    <2> QED BY <1>2, <1>4, QuotientBounds, QuotientGrows
  <1> HIDE DEF a, b, q
  <1>6. TrainEnd(c, n, i) = AtMost(a \div q, n - 2) /\ TrainEnd(c, n, i + 1) = AtMost(b \div q, n - 2)
    BY DEF TrainEnd, a, b, q
  <1> QED BY <1>5, <1>6 DEF AtMost

\* Where testing ends: inside the dates, on the last of them for the last
\* split, and never before the split that precedes it.
LEMMA TestEnds ==
    ASSUME NEW c \in Configs, NEW n \in Nat, n >= 2, NEW i \in 1 .. c.splits
    PROVE  /\ TestEnd(c, n, i) \in TestStart(c, n, i) .. n - 1
           /\ i < c.splits => TestEnd(c, n, i) <= TestEnd(c, n, i + 1)
           /\ i = c.splits => TestEnd(c, n, i) = n - 1
  <1> DEFINE s == TestStart(c, n, i)
             t == TestStart(c, n, i + 1)
             q == c.splits - i
  <1>1. c.splits \in Nat \ {0} /\ i \in Nat /\ i <= c.splits
    BY DatasetAssumption
  <1>2. s \in 1 .. n - 1
    BY TrainEnds DEF TestStart
  <1>3. q \in Nat /\ c.splits - i + 1 = q + 1 /\ c.splits - (i + 1) + 1 = q
    BY <1>1
  <1>4. (n - s) \div (q + 1) \in Nat /\ (n - s) \div 1 = n - s
    BY <1>2, <1>3, QuotientBounds
  <1>5. TestEnd(c, n, i) = AtMost(s + AtLeast(1, (n - s) \div (q + 1)) - 1, n - 1)
    BY <1>3 DEF TestEnd
  <1>6. i < c.splits => TestEnd(c, n, i) <= TestEnd(c, n, i + 1)
    <2> SUFFICES ASSUME i < c.splits PROVE TestEnd(c, n, i) <= TestEnd(c, n, i + 1)
      OBVIOUS
    <2>1. i + 1 \in 1 .. c.splits /\ q \in Nat \ {0}
      BY <1>1
    <2>2. t \in 1 .. n - 1 /\ s <= t
      BY <1>1, <2>1, TrainEnds DEF TestStart
    <2>3. TestEnd(c, n, i + 1) = AtMost(t + AtLeast(1, (n - t) \div q) - 1, n - 1)
      BY <1>3 DEF TestEnd
    <2> HIDE DEF s, t, q
    <2>4. n - t \in Nat /\ t - s \in Nat /\ n - s = (n - t) + (t - s)
      BY <1>2, <2>2
    <2>5. (n - s) \div (q + 1) <= (n - t) \div (q + 1) + (t - s)
      BY <1>3, <2>4, QuotientLags
    <2>6. (n - t) \div (q + 1) <= (n - t) \div q
      BY <2>1, <2>4, QuotientShrinks
    <2>7. (n - t) \div q \in Nat /\ (n - t) \div (q + 1) \in Nat
      BY <1>3, <2>1, <2>4, QuotientBounds
    <2> DEFINE u == (n - s) \div (q + 1)
               v == (n - t) \div q
    <2>8. u \in Nat /\ v \in Nat /\ s + u <= t + v
      BY <1>2, <1>4, <2>2, <2>5, <2>6, <2>7
    <2> HIDE DEF u, v
    <2>9. TestEnd(c, n, i) = AtMost(s + AtLeast(1, u) - 1, n - 1)
      BY <1>5 DEF u
    <2>10. TestEnd(c, n, i + 1) = AtMost(t + AtLeast(1, v) - 1, n - 1)
      BY <2>3 DEF v
    <2> QED BY <1>2, <2>2, <2>8, <2>9, <2>10 DEF AtMost, AtLeast
  <1>7. i = c.splits => q + 1 = 1
    BY <1>1
  <1> DEFINE u == (n - s) \div (q + 1)
  <1>8. i = c.splits => u = n - s
    BY <1>4, <1>7
  <1>9. s = TestStart(c, n, i)
    OBVIOUS
  <1> HIDE DEF s, t, q
  <1>10. u \in Nat /\ TestEnd(c, n, i) = AtMost(s + AtLeast(1, u) - 1, n - 1)
    BY <1>4, <1>5
  <1> HIDE DEF u
  <1>11. /\ TestEnd(c, n, i) \in s .. n - 1
         /\ i = c.splits => TestEnd(c, n, i) = n - 1
    BY <1>2, <1>8, <1>10 DEF AtMost, AtLeast
  <1> QED BY <1>6, <1>9, <1>11

\* What the splits are, for any number of them that the dates admit.
LEMMA SplitsGoForward ==
    ASSUME NEW c \in Configs, NEW n \in Nat, n >= c.splits + 1
    PROVE  WalksForward(c, n)
  <1>1. c.splits \in Nat \ {0} /\ n >= 2
    BY DatasetAssumption
  <1>2. ASSUME NEW i \in 1 .. c.splits
        PROVE  /\ 0 <= TrainEnd(c, n, i) /\ TrainEnd(c, n, i) < TestStart(c, n, i)
               /\ TestStart(c, n, i) <= TestEnd(c, n, i) /\ TestEnd(c, n, i) < n
    <2>1. TrainEnd(c, n, i) \in 0 .. n - 2
      BY <1>1, TrainEnds
    <2>2. TestEnd(c, n, i) \in TestStart(c, n, i) .. n - 1
      BY <1>1, TestEnds
    <2> QED BY <2>1, <2>2 DEF TestStart
  <1>3. ASSUME NEW i \in 1 .. c.splits - 1
        PROVE  /\ TrainEnd(c, n, i) <= TrainEnd(c, n, i + 1)
               /\ TestEnd(c, n, i) <= TestEnd(c, n, i + 1)
    BY <1>1, TrainEnds, TestEnds
  <1>4. TestEnd(c, n, c.splits) = n - 1
    BY <1>1, TestEnds
  <1> QED BY <1>2, <1>3, <1>4 DEF WalksForward

-----------------------------------------------------------------------------
(* The inductive invariant.                                                *)

\* A build has enough dates; all its parquet files are put before the rest.
InOrder ==
    \A r \in Requests :
        /\ req[r].pc = "idle" \/ req[r].dates >= req[r].config.splits + 1
        /\ req[r].pc = "upload" => req[r].put < 2 * req[r].config.splits
        /\ req[r].pc \in {"manifest", "record", "registered"} =>
              req[r].put = 2 * req[r].config.splits

\* What a request has put is there unless another has deleted of it.
Kept == \A r \in Requests \ hit : Put(r) \subseteq files[req[r].config]

IInv == TypeOK /\ InOrder /\ Kept

LEMMA InitIInv == Init => IInv
  <1> SUFFICES ASSUME Init PROVE IInv
    OBVIOUS
  <1>1. Idle.config \in Configs /\ Idle \in ReqType
    BY DatasetAssumption DEF Idle, ReqType, Stages
  <1>2. \A r \in Requests : req[r] = Idle
    BY DEF Init
  <1>3. TypeOK
    <2>1. /\ Idle.put = 0 /\ Idle.listed = {} /\ Idle.config.splits \in Nat
      BY <1>1, DatasetAssumption DEF Idle
    <2> HIDE DEF Idle
    <2>2. /\ DOMAIN files = Configs /\ \A c \in Configs : files[c] = {}
          /\ hit = {} /\ req = [r \in Requests |-> Idle]
      BY DEF Init
    <2> QED BY <1>1, <2>1, <2>2 DEF TypeOK
  <1>4. InOrder /\ Kept
    BY <1>1, <1>2 DEF Init, InOrder, Kept, Put, Idle
  <1> QED BY <1>3, <1>4 DEF IInv

\* One request changes, no file is deleted, and what the request has put then
\* is there or was deleted by another.
LEMMA OneAdvances ==
    ASSUME IInv, NEW r \in Requests, NEW x \in ReqType,
           req' = [req EXCEPT ![r] = x],
           x.put <= 2 * x.config.splits, x.listed \subseteq Keys(x.config),
           x.pc = "idle" \/ x.dates >= x.config.splits + 1,
           x.pc = "upload" => x.put < 2 * x.config.splits,
           x.pc \in {"manifest", "record", "registered"} => x.put = 2 * x.config.splits,
           DOMAIN files' = Configs,
           \A c \in Configs : files[c] \subseteq files'[c] /\ files'[c] \subseteq Keys(c),
           hit' \subseteq Requests, \A q \in Requests \ {r} : q \in hit' <=> q \in hit,
           r \notin hit' => Put(r)' \subseteq files'[x.config]
    PROVE  IInv'
  <1> USE DEF IInv
  <1>1. req' \in [Requests -> ReqType] /\ req'[r] = x /\ \A q \in Requests \ {r} : req'[q] = req[q]
    BY DEF TypeOK
  <1>2. TypeOK'
    BY <1>1 DEF TypeOK
  <1>3. InOrder'
    BY <1>1 DEF InOrder
  <1>4. Kept'
    <2>1. \A q \in Requests \ {r} : Put(q)' = Put(q) /\ req[q].config \in Configs
      BY <1>1 DEF Put, TypeOK, ReqType
    <2> QED BY <1>1, <2>1 DEF Kept
  <1> QED BY <1>2, <1>3, <1>4

\* A request that ends has nothing that could be missed.
LEMMA OneEnds ==
    ASSUME IInv, NEW r \in Requests, End(r), hit' = hit,
           DOMAIN files' = Configs,
           \A c \in Configs : files[c] \subseteq files'[c] /\ files'[c] \subseteq Keys(c)
    PROVE  IInv'
  <1>1. /\ Idle \in ReqType /\ Idle.pc = "idle" /\ Idle.put = 0 /\ Idle.listed = {}
        /\ Idle.config.splits \in Nat
    BY DatasetAssumption DEF Idle, ReqType, Stages
  <1>2. req'[r] = Idle
    BY DEF IInv, TypeOK, End
  <1>3. Put(r)' = {}
    BY <1>1, <1>2 DEF Put
  <1> HIDE DEF Idle
  <1>4. /\ req' = [req EXCEPT ![r] = Idle] /\ Idle.put <= 2 * Idle.config.splits
        /\ hit' \subseteq Requests
    BY <1>1 DEF End, IInv, TypeOK
  <1> QED BY <1>1, <1>3, <1>4, OneAdvances

\* The request that deletes ends, and whom it robs is recorded.
LEMMA OneDeletes ==
    ASSUME IInv, NEW r \in Requests, End(r), NEW keys, Delete(r, keys)
    PROVE  IInv'
  <1> USE DEF IInv
  <1>1. /\ Idle \in ReqType /\ Idle.pc = "idle" /\ Idle.put = 0 /\ Idle.listed = {}
        /\ Idle.config.splits \in Nat
    BY DatasetAssumption DEF Idle, ReqType, Stages
  <1> HIDE DEF Idle
  <1>2. /\ req' \in [Requests -> ReqType] /\ req'[r] = Idle
        /\ \A q \in Requests \ {r} : req'[q] = req[q]
    BY <1>1 DEF TypeOK, End
  <1>3. /\ DOMAIN files' = Configs
        /\ \A c \in Configs : files'[c] = IF c = req[r].config THEN files[c] \ keys ELSE files[c]
    BY DEF Delete, TypeOK, ReqType
  <1>4. /\ hit \subseteq hit' /\ hit' \subseteq Requests
        /\ \A q \in Requests \ {r} : q \notin hit' =>
              (req[q].config = req[r].config => Put(q) \cap keys = {})
    BY DEF Delete, TypeOK
  <1>5. TypeOK'
    BY <1>1, <1>2, <1>3, <1>4 DEF TypeOK
  <1>6. InOrder'
    BY <1>1, <1>2 DEF InOrder
  <1>7. Kept'
    <2>1. \A q \in Requests \ {r} : Put(q)' = Put(q) /\ req[q].config \in Configs
      BY <1>2 DEF Put, TypeOK, ReqType
    <2>2. Put(r)' = {}
      BY <1>1, <1>2 DEF Put
    <2> QED BY <1>2, <1>3, <1>4, <2>1, <2>2 DEF Kept
  <1> QED BY <1>5, <1>6, <1>7

\* What a row says when one field, or two, of it change.
LEMMA ChangedRequests ==
    ASSUME NEW x \in ReqType
    PROVE  /\ \A pc \in Stages :
                 /\ [x EXCEPT !.pc = pc] \in ReqType
                 /\ \A n \in Nat : [x EXCEPT !.put = n, !.pc = pc] \in ReqType
                 /\ \A l \in SUBSET Nat : [x EXCEPT !.pc = pc, !.listed = l] \in ReqType
  BY DEF ReqType

LEMMA NextIInv ==
    ASSUME IInv, [Next]_vars
    PROVE  IInv'
  <1> USE DEF IInv
  <1>0. /\ DOMAIN files = Configs
        /\ \A c \in Configs : files[c] \subseteq Keys(c) /\ c.splits \in Nat \ {0}
        /\ hit \subseteq Requests
        /\ \A r \in Requests : /\ req[r] \in ReqType /\ req[r].config \in Configs
                               /\ req[r].put \in Nat /\ req[r].pc \in Stages
                               /\ req[r].listed \subseteq Keys(req[r].config)
    BY DatasetAssumption DEF TypeOK, ReqType
  <1>a. ASSUME NEW r \in Requests, NEW k \in Keys(req[r].config), AddFile(r, k)
        PROVE  /\ DOMAIN files' = Configs /\ k \in files'[req[r].config]
               /\ \A c \in Configs : files[c] \subseteq files'[c] /\ files'[c] \subseteq Keys(c)
    BY <1>0, <1>a DEF AddFile
  <1>1. ASSUME NEW r \in Requests, NEW c \in Configs, NEW n \in 0 .. MaxDates, Build(r, c, n)
        PROVE  IInv'
    <2> DEFINE x == [pc |-> "upload", config |-> c, dates |-> n, put |-> 0, listed |-> {}]
    <2>1. x \in ReqType /\ x.put <= 2 * c.splits /\ x.put < 2 * c.splits /\ c.splits \in Nat
      BY <1>0 DEF ReqType, Stages
    <2>2. req'[r] = x
      BY <1>1 DEF Build, TypeOK
    <2>3. Put(r)' = {}
      BY <2>2 DEF Put
    <2> QED BY <1>0, <1>1, <2>1, <2>3, OneAdvances DEF Build
  <1>2. ASSUME NEW r \in Requests, UploadParquet(r) PROVE IInv'
    <2> DEFINE n == req[r].put + 1
               k == 2 * req[r].config.splits
               pc == IF n = k THEN "manifest" ELSE "upload"
               x == [req[r] EXCEPT !.put = n, !.pc = pc]
    <2>1. /\ n \in Nat /\ k \in Nat /\ n <= k /\ n \in Keys(req[r].config)
          /\ pc = "upload" => n < k
          /\ pc = "manifest" => n = k
          /\ pc \in {"upload", "manifest"}
      BY <1>0, <1>2 DEF UploadParquet, InOrder, Keys
    <2>2. /\ req' = [req EXCEPT ![r] = x] /\ AddFile(r, n) /\ hit' = hit
          /\ req[r].pc = "upload"
      BY <1>2 DEF UploadParquet
    <2> HIDE DEF n, pc, k
    <2>3. /\ x \in ReqType /\ x.pc = pc /\ x.put = n /\ x.config = req[r].config
          /\ x.dates = req[r].dates /\ x.listed = req[r].listed
      BY <1>0, <2>1 DEF ReqType, Stages
    <2> HIDE DEF x
    <2>4. req'[r] = x
      BY <2>2 DEF TypeOK
    <2>5. Put(r)' = 1 .. n /\ Put(r) = 1 .. req[r].put
      BY <2>1, <2>2, <2>3, <2>4 DEF Put
    <2>6. r \notin hit' => Put(r)' \subseteq files'[x.config]
      <3>1. 1 .. n \subseteq (1 .. req[r].put) \cup {n}
        BY <1>0, <2>1 DEF n
      <3> QED BY <1>0, <1>a, <2>1, <2>2, <2>3, <2>5, <3>1 DEF Kept
    <2>7. x.dates >= x.config.splits + 1
      BY <2>2, <2>3 DEF InOrder
    <2>8. k = 2 * x.config.splits
      BY <2>3 DEF k
    <2> QED BY <1>0, <1>a, <2>1, <2>2, <2>3, <2>6, <2>7, <2>8, OneAdvances
  <1>3. ASSUME NEW r \in Requests, NEW pc \in {"cleanup", "record", "registered", "list"},
               Go(r, pc), hit' = hit, req[r].pc # "idle",
               DOMAIN files' = Configs,
               \A c \in Configs : files[c] \subseteq files'[c] /\ files'[c] \subseteq Keys(c),
               pc \in {"record", "registered"} => req[r].put = 2 * req[r].config.splits,
               r \notin hit /\ pc \in {"record", "registered"} =>
                   Keys(req[r].config) \subseteq files'[req[r].config]
        PROVE  IInv'
    <2> DEFINE x == [req[r] EXCEPT !.pc = pc]
    <2>1. /\ x \in ReqType /\ x.pc = pc /\ x.put = req[r].put /\ x.config = req[r].config
          /\ x.dates = req[r].dates /\ x.listed = req[r].listed
      BY <1>0 DEF ReqType, Stages
    <2>2. req' = [req EXCEPT ![r] = x] /\ req'[r] = x
      BY <1>3 DEF Go, TypeOK
    <2> HIDE DEF x
    <2>3. /\ req[r].dates >= req[r].config.splits + 1
          /\ req[r].put <= 2 * req[r].config.splits
      BY <1>3 DEF InOrder, TypeOK
    <2>4. Put(r)' = IF pc \in {"record", "registered"} THEN Keys(req[r].config) ELSE {}
      BY <2>1, <2>2 DEF Put
    <2> QED BY <1>0, <1>3, <2>1, <2>2, <2>3, <2>4, OneAdvances
  <1>4. ASSUME NEW r \in Requests, UploadFails(r) PROVE IInv'
    <2>1. req[r].put + 1 \in Keys(req[r].config)
      BY <1>0, <1>4 DEF UploadFails, InOrder, Keys
    <2>2. /\ DOMAIN files' = Configs
          /\ \A c \in Configs : files[c] \subseteq files'[c] /\ files'[c] \subseteq Keys(c)
      BY <1>0, <1>4, <1>a, <2>1 DEF UploadFails
    <2>3. hit' = hit /\ req[r].pc = "upload" /\ (End(r) \/ Go(r, "cleanup"))
      BY <1>4 DEF UploadFails
    <2> QED BY <1>3, <2>2, <2>3, OneEnds
  <1>5. ASSUME NEW r \in Requests, CleanUp(r) \/ DeleteObjects(r) PROVE IInv'
    <2>1. End(r) /\ \E keys : Delete(r, keys)
      BY <1>5 DEF CleanUp, DeleteObjects
    <2> QED BY <2>1, OneDeletes
  <1>6. ASSUME NEW r \in Requests, PutManifest(r) PROVE IInv'
    <2>1. 0 \in Keys(req[r].config)
      BY <1>0 DEF Keys
    <2>2. /\ DOMAIN files' = Configs
          /\ \A c \in Configs : files[c] \subseteq files'[c] /\ files'[c] \subseteq Keys(c)
      BY <1>0, <1>6, <1>a, <2>1 DEF PutManifest
    <2>3. hit' = hit /\ req[r].pc = "manifest" /\ req[r].put = 2 * req[r].config.splits
      BY <1>6 DEF PutManifest, InOrder
    <2>4. CASE End(r)
      BY <2>2, <2>3, <2>4, OneEnds
    <2>5. CASE Go(r, "record") /\ AddFile(r, 0)
      <3>1. 0 \in files'[req[r].config]
        BY <1>a, <2>1, <2>5
      <3>2. r \notin hit => 1 .. req[r].put \subseteq files[req[r].config]
        BY <2>3 DEF Kept, Put
      <3>3. Keys(req[r].config) = {0} \cup 1 .. req[r].put
        BY <1>0, <2>3 DEF Keys
      <3> QED BY <1>0, <1>3, <2>2, <2>3, <2>5, <3>1, <3>2, <3>3
    <2> QED BY <1>6, <2>4, <2>5 DEF PutManifest
  <1>7. ASSUME NEW r \in Requests, RegisterManifest(r) PROVE IInv'
    <2>1. /\ hit' = hit /\ files' = files /\ req[r].pc = "record"
          /\ req[r].put = 2 * req[r].config.splits /\ (End(r) \/ Go(r, "registered"))
      BY <1>7 DEF RegisterManifest, InOrder
    <2>2. r \notin hit => Keys(req[r].config) \subseteq files[req[r].config]
      BY <2>1 DEF Kept, Put
    <2> QED BY <1>0, <1>3, <2>1, <2>2, OneEnds
  <1>8. ASSUME NEW r \in Requests, DeleteDataset(r) PROVE IInv'
    <2>1. /\ hit' = hit /\ files' = files /\ req[r].pc = "registered"
          /\ End(r) \/ Go(r, "list")
      BY <1>8 DEF DeleteDataset
    <2> QED BY <1>0, <1>3, <2>1, OneEnds
  <1>9. ASSUME NEW r \in Requests, ListObjects(r) PROVE IInv'
    <2>1. hit' = hit /\ files' = files /\ req[r].pc = "list"
      BY <1>9 DEF ListObjects
    <2>2. CASE End(r)
      BY <1>0, <2>1, <2>2, OneEnds
    <2>3. CASE ~End(r)
      <3> DEFINE l == files[req[r].config]
                 x == [req[r] EXCEPT !.pc = "remove", !.listed = l]
      <3>1. l \subseteq Keys(req[r].config) /\ l \in SUBSET Nat
        BY <1>0 DEF Keys
      <3> HIDE DEF l
      <3>2. /\ x \in ReqType /\ x.pc = "remove" /\ x.put = req[r].put /\ x.config = req[r].config
            /\ x.dates = req[r].dates /\ x.listed = l
        BY <1>0, <3>1 DEF ReqType, Stages
      <3>3. req' = [req EXCEPT ![r] = x] /\ req'[r] = x
        BY <1>9, <2>3 DEF ListObjects, TypeOK, l
      <3> HIDE DEF x
      <3>4. Put(r)' = {}
        BY <3>2, <3>3 DEF Put
      <3>5. req[r].dates >= req[r].config.splits + 1 /\ req[r].put <= 2 * req[r].config.splits
        BY <2>1 DEF InOrder, TypeOK
      <3> QED BY <1>0, <2>1, <3>1, <3>2, <3>3, <3>4, <3>5, OneAdvances
    <2> QED BY <2>2, <2>3
  <1>10. ASSUME Crash PROVE IInv'
    <2>1. /\ Idle \in ReqType /\ Idle.pc = "idle" /\ Idle.put = 0 /\ Idle.listed = {}
          /\ Idle.config.splits \in Nat
      BY DatasetAssumption DEF Idle, ReqType, Stages
    <2> HIDE DEF Idle
    <2>2. /\ req' \in [Requests -> ReqType]
          /\ \A r \in Requests : req'[r] = Idle \/ req'[r] = req[r]
      BY <1>10, <2>1 DEF Crash, TypeOK
    <2>3. UNCHANGED <<files, hit>>
      BY <1>10 DEF Crash
    <2>4. TypeOK' /\ InOrder'
      BY <2>1, <2>2, <2>3 DEF TypeOK, InOrder
    <2>5. ASSUME NEW r \in Requests
          PROVE  Put(r)' = {} \/ (Put(r)' = Put(r) /\ req'[r].config = req[r].config)
      <3>1. CASE req'[r] = Idle
        BY <2>1, <3>1 DEF Put
      <3>2. CASE req'[r] = req[r]
        BY <3>2 DEF Put
      <3> QED BY <2>2, <3>1, <3>2
    <2>6. Kept'
      BY <2>3, <2>5 DEF Kept
    <2> QED BY <2>4, <2>6
  <1>11. CASE UNCHANGED vars
    BY <1>11 DEF vars, TypeOK, InOrder, Kept, Put
  <1> QED
    BY <1>1, <1>2, <1>4, <1>5, <1>6, <1>7, <1>8, <1>9, <1>10, <1>11 DEF Next, Handler

-----------------------------------------------------------------------------
(* The theorems.                                                           *)

\* The variables keep their types: no build puts more than its splits.
THEOREM DatasetTypes == Spec => []TypeOK
  <1>1. IInv => TypeOK
    BY DEF IInv
  <1> QED BY <1>1, InitIInv, NextIInv, PTL DEF Spec

\* A listed dataset is whole unless another of its config took of it.
THEOREM DatasetsAreComplete == Spec => []DatasetComplete
  <1>1. ASSUME IInv PROVE DatasetComplete
    <2>1. \A r \in Requests : req[r].config \in Configs
      BY <1>1 DEF IInv, TypeOK, ReqType
    <2> QED BY <1>1, <2>1 DEF IInv, TypeOK, DatasetComplete, Kept, Put
  <1> QED BY <1>1, InitIInv, NextIInv, PTL DEF Spec

\* No build ever looks ahead or leaves a test window empty.
THEOREM SplitsAlwaysWalkForward == Spec => []SplitsWalkForward
  <1>1. ASSUME IInv PROVE SplitsWalkForward
    <2> SUFFICES ASSUME NEW r \in Requests, req[r].pc # "idle"
                 PROVE  WalksForward(req[r].config, req[r].dates)
      BY DEF SplitsWalkForward
    <2>1. /\ req[r].config \in Configs /\ req[r].dates \in Nat
          /\ req[r].dates >= req[r].config.splits + 1
      BY <1>1 DEF IInv, TypeOK, ReqType, InOrder
    <2> QED BY <2>1, SplitsGoForward
  <1> QED BY <1>1, InitIInv, NextIInv, PTL DEF Spec

-----------------------------------------------------------------------------
(* Where no config is shared.                                              *)

\* No two requests that are under way or registered ask for the same.
Unshared ==
    \A q, r \in Requests : q # r /\ req[q].pc # "idle" /\ req[r].pc # "idle" =>
        req[q].config # req[r].config

\* A dataset that is listed has all its objects.
DatasetWhole ==
    \A r \in Requests : req[r].pc = "registered" => files[req[r].config] = Keys(req[r].config)

NoneHit == hit = {}

\* A request robs none but those with its own config.
LEMMA OnlySharersAreHit ==
    ASSUME IInv, Unshared, NoneHit, [Next]_vars
    PROVE  NoneHit'
  <1> USE DEF NoneHit
  <1>1. ASSUME NEW r \in Requests, NEW keys, Delete(r, keys), req[r].pc # "idle"
        PROVE  hit' = {}
    <2>1. \A q \in Requests \ {r} : req[q].config = req[r].config => req[q].pc = "idle"
      BY <1>1 DEF Unshared
    <2>2. \A q \in Requests : req[q].pc = "idle" => Put(q) = {}
      BY DEF Put
    <2> QED BY <1>1, <2>1, <2>2 DEF Delete
  <1>2. ASSUME NEW r \in Requests, CleanUp(r) \/ DeleteObjects(r) PROVE hit' = {}
    BY <1>1, <1>2 DEF CleanUp, DeleteObjects
  <1>3. ASSUME hit' = hit \/ (\E r \in Requests : hit' = hit \ {r}) PROVE hit' = {}
    BY <1>3
  <1>4. \/ hit' = hit
        \/ \E r \in Requests : hit' = hit \ {r} \/ CleanUp(r) \/ DeleteObjects(r)
    BY DEF Next, Crash, Handler, Build, UploadParquet, UploadFails, PutManifest,
       RegisterManifest, DeleteDataset, ListObjects, vars
  <1> QED BY <1>2, <1>3, <1>4

\* Sharing a config is the only way for a dataset to lose an object: as long as
\* none is shared, every listed dataset is whole, whatever fails or crashes and
\* whatever the builds and deletions of the same config before it left behind.
THEOREM UnsharedDatasetsAreWhole == Spec /\ []Unshared => []DatasetWhole
  <1>1. Init => NoneHit
    BY DEF Init, NoneHit
  <1>2. ASSUME IInv, NoneHit PROVE DatasetWhole
    <2>1. \A r \in Requests : req[r].config \in Configs
      BY <1>2 DEF IInv, TypeOK, ReqType
    <2> QED BY <1>2, <2>1 DEF IInv, TypeOK, NoneHit, DatasetWhole, Kept, Put
  <1> QED BY <1>1, <1>2, InitIInv, NextIInv, OnlySharersAreHit, PTL DEF Spec
=============================================================================
