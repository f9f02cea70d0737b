# Verification of alpaca-rl-suite

TLA+ models of the parts of this repository that decide about money, and of the
pipeline that makes, tests and releases the policies they decide by; the TLC
configurations that check them on small instances, and TLAPS proofs of their
main properties for every instance. The reference is the code; where a comment,
a document or a test says something else, that is a *finding* (section 7).

Contents: 1 the system, 2 components and what makes them correct, 3 the
modules, 4 the runs, 5 what is assumed, 6 what is proved, 7 findings, 8 what is
not modelled, 9 plan.

## 1. The system

A reinforcement-learning trading platform made of small services that talk
HTTP/JSON and share one TimescaleDB.

```
            features / policy                     bars
  feature-builder   rl-infer         alpaca-adapter (stream) --NATS--> market-ingest --> DB
         \           /                     ^   ^
          strategy-runner --POST /orders--> orders --POST/DELETE--> alpaca-adapter --> Alpaca
            |    |   ^                     |                              ^
  risk check|    |   |GET positions,equity | order_event                  |GET positions, account
            v    |   |                     v                              |
          risk <-+  portfolio ----------- DB <------- snapshots ------ portfolio (cron, POST /sync)
            ^  PortfolioSyncCron: GET /portfolio/account |
            +--------------------------------------------+


  ingest_sharadar.py, market-ingest --> bar_1d --> feature-builder --> feature_row --> dataset-builder --> S3
                                          |
  temporal-worker --POST /rl/train--> rl-train --model--> S3, policy_bundle --> rl-infer
        |                                ^                     ^   ^
        +--POST /backtest/run--> backtest: backtest_report     |   +-- operator: approve, reject, promote, delete
        +--POST promote-----------------------------------------+   kaggle-orchestrator: approve or reject a job
```

The *online* half (runner, risk, orders, portfolio, adapter) runs one Node
process per service: handlers interleave at every `await`, timers and requests
race, any process may die between two awaits. Nothing coordinates the services
except database rows, idempotency keys and timeouts. The *offline* half
(training, datasets, policies) is Python: handlers run in threads of one process per
service, long work in background tasks that die with their process and leave their row
as it was, files lie in an object store that no transaction covers, and a Temporal
workflow drives the whole over HTTP, with retries.

## 2. Components

| component | state | operations | hard behaviour | correct means |
|---|---|---|---|---|
| orders | `order_event` rows: status, broker id, idempotency key | submit, cancel | two requests on one key, broker timeout with the order placed, failing statement, crash between awaits | one broker order per key; row durable before the broker call; an id shown is true; no status left behind by a request that ended |
| risk | singleton `risk_state` row; cron timer and in-flight flag | check; halt, resume, daily loss, portfolio value; periodic sync | check racing writes; equity ageing on its way, before its time stamp too; slow or overlapping syncs | an answer corresponds to one instant; allowed only on equity whose age is known; syncs in order |
| strategy-runner | running, timer, promise of the tick in flight | start, stop, tick (timer and HTTP) | tick against halt, stop, manual tick; sizing on snapshots; every callee may fail | halt and stop take effect; exposure bounded; nothing bought on unknown positions |
| portfolio | `position_snapshot`, `account_snapshot` (append only) | sync (cron, POST), latest positions and account | overlapping syncs, no timeouts, positions and account not atomic | the latest rows describe what is held |
| alpaca-adapter, REST | none | forward orders, cancels, positions | answer lost after the broker acted | forwards the idempotency key as client order id |
| alpaca-adapter, streamer | websocket, retry count, retry timer, dead flag | connect, bar, disconnect, reconnect, close | timer overwritten, attempt limit, exception in the timer | reconnects while it may; close is final |
| market-ingest | JetStream consumer, in-flight jobs | consume, ack, nak, backfill, drain | redelivery, crash between upsert and ack, shutdown | every delivered bar is stored once |
| ingest_sharadar.py | committed chunks, position in the files | run (all tables or some, dry or not), resume, skip, upsert a chunk | a failure or kill between chunks, `--resume` over a half loaded table | "ok" is said of a table that is all there, but by a dry run |
| rl-train | `training_run`, `policy_bundle`, model files | train, approve, reject, promote, delete | three stores in a row, any of which fails or is applied and raises; approval read and promotion written unlocked | a policy has its model; nothing is released that nobody approved |
| trading environment | rows, offset, step, positions | construct, reset, step | portion shorter than the episode, rows running out | training keeps to its portion; no decision is paid with what it has seen |
| rl-infer | loaded policies, active id | start-up load, load, activate, infer, restart | downloads that fail between two steps; a table that changes under it | the active policy is loaded, and was approved unless chosen by hand |
| kaggle-orchestrator | `kaggle_training_job` | approve, reject, cancel (create and update have no caller) | decisions on a row read before; the policy decided on elsewhere meanwhile | an approved job's policy is in service |
| temporal-worker | workflow history | train, poll, backtest, promote, notify | an attempt fails after it was served; the polled service dies | what a workflow says it did, it did; it ends |
| backtest | `backtest_report`, files; engine: position, counts, generator | run, engine loop per symbol | files and row stored one after the other; state kept between symbols | a completed report has its results, the charts it names and its policy; counts agree; seeds reproduce |
| dataset-builder | `dataset_manifest`, split files | build, delete | datasets of one hash share their files; partial cleanup | a manifest names files that exist; splits walk forward |
| feature-builder | feature rows, TTL cache | latest, build, compute | a result put after its bars changed and its entry was dropped; a full cache | an answer is less than a TTL out of date |
| keycloak_auth | JWKS cache | verify, refresh | refresh races, unknown key | accepts what the current keys sign |
| api-gateway, auth, dashboard, web-ui, cli, packages, infra, notebooks | none that matters here | proxying, tokens, views, schemas | - | - |

`PROJECT.json` lists the same components with their files and status, and the
hazards with the line at which each bites.

## 3. The modules

Conventions. Variables carry the names of the code's state, actions the names of
what the handler does at that point; a handler is cut at its awaits and nowhere
else, and what it does between two awaits is one action. Requests live in
*slots*: a slot serves one request after another, so the number of slots bounds
how many run *at once*, not how many there are. *History* variables record what
a property has to know about the past; no action of the code reads them.
`MutantX` is a slip of definition `X` that a property must notice; it is used
by no definition.

**Orders** - `orders` with its table and the broker. `row` is `order_event`,
`order` the broker's book, `submit` and `cancel` the requests in flight.

| action | code (`services/orders/src/ordersService.ts`) |
|---|---|
| `SubmitOrder` | lookup by key, 46-56 |
| `CreateOrder`, `CreateOrderFails` | insert and call, 58-78 |
| `FinalizeAccepted`, `FinalizeFails` | 2xx, 86-109 |
| `RecordRefusal`, `RecordRefusalFails`, `RetryRecordRefusal` | non-ok, 80-92, and the catch block when that update throws |
| `AbortSubmit`, `AbortSubmitFails` | timeout or network error, 87-99 |
| `CancelOrder`, `MarkCancelling...` | read and mark, 126-141 |
| `FinalizeCancelled...`, `RestoreStatus...`, `AbortCancel` | 142-171 |
| `BrokerAccepts`, `BrokerRefuses`, `AnswerLost`, `BrokerCancels`, ..., `BrokerCloses` | Alpaca behind the adapter (external) |
| `Crash` | the process dies |

A database statement may throw *having been applied or not*. A call whose caller
has gone (timeout, crash) may still reach the broker later. `trouble[k]` is
history: `contended` if requests on key `k` overlapped or a call or its answer was
lost, `interrupted` if a process or a statement failed on the way.

**OrderContract** - what `Orders` promises a caller, without database, HTTP or
failures: a key is worth one order, over means over, the id shown never changes.
`Orders` implements it under `placed <- OrdersOf`, `live <-` open orders,
`known <- row[k].alpacaId`.

**RiskGate** - `risk`: `state` is the `risk_state` row, `check` the
`/risk/check` requests (`AskCheck`, `ReadState`, `Decide`: `app.ts` 52-106),
`due`, `inFlight` and `run` are `PortfolioSyncCron` (`TimerFires`, `FetchRead`,
`FetchReceive`, `FetchUnstamped`, `FetchSkips`, `FetchFails`, `WriteValue`:
`portfolioSync.ts` 22-127), `snap` the newest `account_snapshot`. Time is discrete; only
ages are kept, saturated beyond the threshold. A portfolio value is represented by the
notional it allows. Every copy of the equity has two ages: `age` is what the time stamp
says, `real` is history, counted from Alpaca's answer. The two differ because
`syncFromBroker` (`portfolioService.ts` 7-24) waits for the positions answer, without a
timeout, and stores the positions before it inserts the account with `created_at = NOW()`:
`SaveSnapshot(v, held)` stores equity that is already `held` old, and overlapping syncs may
store older equity later. `own` is history, too: whether the time stamp is the snapshot's
own. `FetchUnstamped` is the fallback of `portfolioSync.ts` 111, a `created_at` that is not
a string and is replaced by the present time; the column is `NOT NULL DEFAULT NOW()`
(`init.sql` 122), so this repository's portfolio service does not cause it.

**RiskContract** - what a risk check promises whoever asks: an order is cleared at one
instant after it was asked about, at which the rules allow its size. It has no row, clock
or requests. `RiskGate` implements it from the service's side (`allows <-` the notionals the row
allows now, `asker <- Answer(c)`; a check that has read the row counts as decided), and
`TradingLoop` from the runner's (`allows <-` nothing under a halt, else up to `Target`).

**TradingLoop** - the runner's loop (`tick`, `trade`, `running`, `inFlight`,
`stop`), the position snapshots it reads (`rows`), the syncs that write them
(`sync`) and the broker (`held`, `sent`). One action per step of `doTick`
(`runnerScheduler.ts` 134-189) and `submitTrade` (338-401). It uses two services
through what their modules show: a risk check is one step, because its answer
corresponds to one instant (both modules implement `RiskContract`); an order sent
reaches the broker at most once (`Orders!OneOrderPerKey`). Abstractions:

- a position is its market value and moves with fills only, equity is constant,
  so the allocation target and the risk service's size limit are one constant
  `Target` (the code computes both as `MAX_POSITION_SIZE_PCT` of equity);
- features and inference are a free choice of long, hold or short per symbol (a
  missing score is a hold);
- what POST /orders is answered with does not matter to the loop (only a counter
  and a log line depend on it).

As the code stands the runner sends no `Authorization` header (368-381) while
the orders service requires one (`orders/src/index.ts` 27-61, 67), so in a
deployment without a proxy that adds it every order is answered 401. The module
models the loop as its tests run it, with orders that may arrive; the refused
ones are `Drop`. Every safety property here therefore covers the 401 case too.

**PolicyRegistry** - the `policy_bundle` and `kaggle_training_job` tables with the
services that write them, and `rl-infer`. `policy` and `job` are the rows, `request` the
handlers that have read and not yet written, `cache` and `active` are `PolicyCache`,
`startup` and `load` what rl-infer is at. `cleared` and `byHand` are history.

| action | code |
|---|---|
| `SavePolicyBundle`, `Approve`, `Reject`, `DeletePolicy` | `rl-train/main.py` 111-122, 381-447: one statement each |
| `PromoteReads`, `PromoteWrites` | 417-437: SELECT, then UPDATE, no lock; `promoted_at` is when the transaction began |
| `ReadJob`, `ApproveJob`, `RejectJob`, `CancelJob` | `kaggle-orchestrator/main.py` 415-508: `get_job_row` in its own connection, then the writes |
| `CreateJob`, `UpdateJob` | 238-267, which nobody calls: whatever follows a kernel would |
| `StartupReads`, `StartupLoads`, `StartupGivesUp` | `rl-infer/main.py` 96-113 |
| `LoadReads`, `LoadStores`, `LoadActivates`, `LoadFails`, `Activate` | 153-218 |
| `LoseRequest`, `RestartInfer` | a rolled back transaction, a dead process |

**PromotionGate** - what the registry promises: absent, waiting, cleared, released,
deleted, each reached from the one before it only. `PolicyRegistry` implements it under
`gate <- StageOf`, for two services and unlocked reads.

**TrainingWorkflow** - one pipeline over three services: `flow` is the latest execution
of each workflow, `run`, `task`, `models`, `bundle` are rl-train's row, background task,
model file and policy row of a training run, `report`, `job`, `files` the same for a
backtest. `FlowStep` is the worker (`StartTrainingRun` to `Notify`, `workflows.py` 41-162
with `activities.py`), `TrainTask` is `train` (`rl-train/main.py` 160-248), `BacktestTask`
is `run_backtest_task` (`backtest/main.py` 242-335), `DecideBundle`, `UserRequest` and
`Trigger` are what users may do meanwhile. An attempt of an activity may be served and
count as failed; a statement may be applied and raise; `TrainCrash` and `BacktestCrash`
end every background task of a process. Six hours of polling are a nondeterministic end of
the poll, whatever the run has become since it was last asked about. `UploadCharts` may draw
none (`generate_charts` returns `{}` without matplotlib or without curves, 89-102), and then
stores and names none; the report completes all the same.

**DatasetStore** - `req` is a request or the dataset that came of it, `files` the objects
under each path, which is a hash of what was asked for, so that namesakes share them; `hit`
is history. `Build`, `UploadParquet`, `UploadFails`, `CleanUp`, `PutManifest`,
`RegisterManifest` are `build_dataset` (`dataset-builder/main.py` 210-296), `DeleteDataset`,
`ListObjects`, `DeleteObjects` are `delete_dataset` (414-450). `TrainEnd`, `TestStart` and
`TestEnd` are the index arithmetic of `build_walk_forward_splits` (59-84).

**BarIngest, FeatureService, MarketData** - the first is `ingest_sharadar.py`: `loaded`
chunks of each file, `loader` where the script is and what it was run with (`--tables`,
`--resume`, `--dry-run`), `outcome` what it says. A dry run stores nothing and says "ok" like
any other (502), and does not look at `--resume` (482). When the query of `check_resume` raises, the
file is opened whatever is there (438-439); but the statement has aborted the connection's
transaction (`autocommit` is off), so the first upsert raises and the table ends as "error":
`ResumeFails`. The second is
feature-builder: threads (`request`) that look into `cache`, read bars, compute and put
(448-493), and threads that build and drop (313-402). MarketData composes them: a committed
chunk, or a transaction of market-ingest (`Backfill`), puts out of date what was computed
before it. Bars have no content; `since` tells how long a result has been out of date. Rows of
`feature_row` are not kept, since nothing that is modelled reads them.

**TradingEnv, BacktestEngine, Episodes** - the first is `trading_env.py`: `source`
(`DataSource`), `sim` (`TradingSimulator`: for each place of the position array the row it
was decided on), `episode`, `booked`. The second is the loop of `engine.py` (92-185) inside
the loop over symbols (`backtest/main.py` 276-306). Episodes puts them side by side, because
both answer one question: which return pays for a decision.

**MC...** give the constants values for TLC and declare symmetry where parameters are
interchangeable (none where a run checks liveness, nor for numbers). **...Proofs** hold the
theorems.

## 4. The runs

| run | expects | states | shows |
|---|---|---|---|
| `orders` | pass | 9e4 | `OneOrderPerKey`, `OrderHasRow`, `AcceptedIsBacked`, `PendingIsOwned`, `QuietKeyAgrees`, refinement `ImplementsContract` |
| `orders_cancelled` | violation | | `CancelledAtBroker` |
| `orders_cancelling` | violation | | `CancellingIsOwned` |
| `risk` | pass | 4.1e6 | `AllowedAtOneInstant`, `AllowedOnFreshValue`, `HealthyRowIsFresh`, `SyncMovesForward` |
| `trading` | pass | 5.5e5 | `ExposureWithinTarget`, `HaltBarrier`, `HaltLeaksLittle`, `StoppedIsQuiet`, liveness `StopReturns` |
| `trading_shorts` | violation | | `SellsOnlyWhatIsHeld` |
| `trading_oversize` | violation | | `ClosingIsNeverOversize` |
| `policies` | pass | 9.5e5 | `ActiveIsLoaded`, `StartupServesApproved`, `ApprovedJobIsReleased`, refinement `ImplementsGate` |
| `training` | pass | 1.7e6 | `PolicyHasModel`, `ReportIsTrue`, `WorkflowIsTrue`, liveness `WorkflowEnds` |
| `datasets` | pass | 9.2e5 | `DatasetComplete`, `SplitsWalkForward` |
| `market_data` | pass | 4.2e6 | `LoadIsTrue`, `CacheBounded`, `ServedIsFresh` |
| `episodes` | pass | 5e4 | `EpisodeInPortion`, `NoLookAhead`, `BooksBalance`, `Reproducible` |

Every run also checks the `TypeOK` of its module. Deadlock is checked in every run (in
each module some action is always enabled: a request may arrive, the clock may tick, a
process may be restarted).

Bounds, and why they are enough:

- `orders`: one key, because keys share nothing but the broker's ids (rows are
  keyed, and no statement touches two); three submit slots, so that two overlapping
  requests can be joined by a retry; two cancel slots, needed for one cancel to read
  what another has written; two broker ids, so that a second order for the key is
  possible at all.
- `risk`: `Staleness = 3`, `SyncInterval = 1`, `FetchTimeout = 1`,
  `SnapInterval = 1`: the smallest values that satisfy the start-up guard and let a
  snapshot age in each of the places it waits; `SyncTime = 1`, so that equity can be
  older than its stamp and a later snapshot hold older equity. One value and two notionals, one
  that it allows and one that it does not; `MaxLoss = 1`; two run slots, so that
  runs could overlap; one check, since checks change nothing for one another.
- `trading`: one symbol (symbols meet only in the tick they share), two tick slots,
  so that ticks could overlap, one sync slot, `Target = 2` so that a buy can be
  partly filled, `Buying = 3 > Target` so that the target can be exceeded. `Buying` caps
  what can be held or on order and stands for buying power; an order beyond it is
  refused. `MinOrder = 0`: the code's minimum is smaller than one unit here.
- `policies`: two policies, so that one can be newer than the other; two requests, so that two
  handlers can hold what they have read; one job, since jobs meet only in a policy, which
  rl-train's handlers decide on as well; one load, since loads share nothing but the cache;
  two promotions may begin (`MaxClock`).
- `training`: one workflow, since workflows share nothing but the services, whose other users
  are `UserRequest` and `DecideBundle`; two runs, so that a retried start leaves one behind; one
  report; two attempts instead of three, the first and the last; a threshold that a Sharpe
  ratio of 0 reaches and one that it does not.
- `datasets`: two requests, of one configuration or two; one and two splits, fractions 7/10 and
  9/10, up to four dates: enough for a split to be cut at the last date and for a window of
  one date.
- `market_data`: two files, so that one can be left out or follow on a failure; one of two chunks
  where one is expected, so that `--resume` may skip it half loaded; two symbols and room for one in the cache, so that an entry is evicted; two
  threads, `TTL = 2` and two ticks, so that an entry can be a little, just, and too old.
- `episodes`: two stocks of 0 to 10 rows and episodes of 3 days, ratios 1, 1/2 and 3/4: each
  portion can be absent, shorter than, exactly as long as and longer than an episode. Three
  symbols with 0 to 5 rows per report.

Every property of a passing run has a mutant in `PROJECT.json`: a plausible slip
of one mapped definition under which TLC finds the property violated.

## 5. What is assumed

- `OrdersAssumption`, `LoopAssumption`, `ValuesAssumption`: dummies are not
  members of the sets they stand outside of; limits are naturals; `MinOrder <
  Target <= Buying`.
- `IntervalGuard`: the check `loadConfig` makes at start-up
  (`packages/config/src/index.ts` 87-97).
- The broker takes a client order id once, also after that order is over.
- In RiskGate, Node serves a due timer before more time passes, and a fetch whose
  timeout has elapsed is aborted before more time passes (`Tick`'s guard). A stalled body or
  database call is *not* bounded; the code does not bound it either.
- `SyncTime` bounds what one `syncFromBroker` takes from Alpaca's account answer to the insert.
  The code has no such bound (its fetches have no timeout). `GateIsFresh` holds for every
  natural, so it says of each order by how much the time of the sync adds to the threshold; it
  gives no figure that the code would keep to.
- `RegistryAssumption`, `PipelineAssumption`, `IngestAssumption`, `FeatureAssumption`,
  `EngineAssumption`: dummies stand outside their sets, bounds are naturals, a file has a chunk,
  there is a symbol. `DatasetAssumption`: `0 <= train_frac < 1` and at least one split.
  `EnvAssumption`: `0 < train_ratio <= 1`. Fractions are exact rationals where the code has
  floats; `int(n * ratio)` may then differ by one row from the exact quotient.
- A put, a delete or a statement may raise having been applied. The object store is read as
  written, and an object is not changed under its key except where a module says so.
- Fairness of TrainingWorkflow (`FairSpec`): weak fairness of each workflow's own steps, used
  for `WorkflowEnds`. Justification: Temporal keeps a workflow's progress over crashes of the
  worker, every activity has a `start_to_close_timeout` and a bounded number of attempts
  (`workflows.py` 43-106, 140-159), and each timeout is an outcome of the model. No progress is assumed of
  the background tasks, so the property holds although rl-train may die and leave a run
  `running`.
- Fairness of TradingLoop (`FairSpec`): weak fairness of each tick's steps, used
  for `StopReturns`. Justification: every request of a tick goes through `fetchJson`,
  whose abort timer covers the body as well (403-435), and each of the steps has an outcome for
  that case, so a tick always can go on and the event loop lets it. Nothing is
  assumed of the other services, of the broker or of the operator.

## 6. What is proved

For every value of the constants (any number of keys, symbols, slots, limits),
checked by `tlapm`. The theorems of the second column state a property some run checks. Those of
the third state further ones, which their proof modules define; the runs do not check them:

| module | of the runs' properties | further |
|---|---|---|
| OrdersProofs | `TypeCorrect`, `OrderIsUnique`, `OrderIsRecorded`, `AcceptanceIsTrue`, `PendingIsResolved`, `QuietKeysAgree`, `ServiceImplementsContract` | `PendingIsLeftForGood`, `StatusFollowsLifecycle` |
| RiskGateProofs | `TypeCorrect`, `GateIsConsistent`, `GateIsFresh`, `RowIsFresh`, `SyncsAreInOrder` | `GateStaysOpen`, `GateImplementsContract` |
| TradingLoopProofs | `TypeCorrect`, `ExposureIsBounded`, `HaltIsPrompt`, `StopIsQuiet`, `HaltIsBarrier` | `LoopImplementsContract`, `TicksWindDown`, `StopIsNotForgotten` |
| PolicyRegistryProofs | `RegistryTypes`, `DefaultIsLoaded`, `StartupIsApproved`, `ApprovalReleases`, `RegistryImplementsGate` | `PromotionsLast`, `OnlyRegisteredIsServed` |
| TrainingWorkflowProofs | `PipelineTypes`, `PoliciesHaveModels`, `ReportsAreTrue`, `WorkflowsAreTrue` | `WorkflowsWindDown`, `RunsAreOwn`, `ThresholdsDecide` |
| DatasetStoreProofs | `DatasetTypes`, `DatasetsAreComplete`, `SplitsAlwaysWalkForward` | `UnsharedDatasetsAreWhole` |
| MarketDataProofs | `MarketDataTypes`, `LoadsAreTrue`, `CacheIsBounded`, `AnswersAreFresh` | `FullRunsLoad`, `IngestionGoesForward` |
| EpisodesProofs | `EpisodeTypes`, `EpisodesKeepToPortions`, `NothingLooksAhead`, `BooksAlwaysBalance`, `RunsAreReproducible` | `EpisodesFillArrays`, `ReportsAreMeasured`, `ReportsGoForward` |

The arguments:

- **Orders.** `OneOrderPerKey` is not inductive: it needs to know that the broker's
  book is tagged with the key it was asked for (`OrderIsTagged`), which with the
  broker's duplicate test leaves no second order. `AcceptedIsBacked` needs that an
  answer under way names a real order (`SubmitAnswerIsTrue`) and that a cancel knows
  of an id its row still has (`CancelKnowsRow`, `RowIdMatchesStatus`).
  `IInv` is their conjunction. The refinement follows step by step: five actions
  map to `Place`, `EndOrder` or `Acknowledge`, all others leave the mapped state alone
  (`QuietSteps`), and `OneOrderPerKey` makes a second acknowledgement a stutter.
  `QuietInv`, for keys without trouble: one request at a time (`SubmitIsAlone`, `CancelIsAlone`); a submit
  there finds no live order until the broker says so (`SubmitKnows`); what a cancel read at its start tells
  whether there is one until the broker has ended it (`CancelKnows`); without a request the row is right
  (`AtRest`). Eleven steps only spoil their own key (`TroubledSubmit`, `TroubledCancel`).
  Every update is unconditional, so the order of statuses is nowhere written down;
  `StatusFollowsLifecycle` reads it off `QuietInv` (`CancelHoldsRow`: a cancel finds the row as it
  left it), and `PendingIsLeftForGood` needs no quiet: a cancel has read 'pending' only of a row
  without a broker id, and then it restores nothing.
- **RiskGate.** `StampsTell`: wherever equity has come with a stamp of its own, it is older than
  the stamp says by `SyncTime` at most, which the code's test of the stamp turns into
  `AllowedOnFreshValue`. The stamp is taken once, at the insert, and passed on unchanged
  through answer, cron and row (`Carried`), so nothing is added on the way. `ChecksNotice`: the row a check has read allowed the
  request at the instant it was read, and verdicts can only get stricter as the copy ages.
  `OneRun` and `NewestIsYoungest`: one run at a time, what it carries is at least as old as the
  newest snapshot and at most as old as what the run before it wrote. `RunsOnSchedule`
  and `RowOnSchedule` count from the last firing of the timer and give
  `HealthyRowIsFresh`. Ages saturate together, so comparisons survive a tick
  (`OlderFacts`, `StalerFacts`). `GateStaysOpen` assumes that interval, fetch timeout and snapshot period together
  fit into the threshold. The start-up guard (interval below half the threshold) does not see to
  it, the defaults do: 300 s and 30 s in risk, 60 s in `portfolio/src/index.ts:48`, against 3600 s.
  `GateImplementsContract` takes the instant of a check to be its read. The row may change, age or be lost
  after it; the answer only goes from cleared to refused (`StepMoves`).
- **TradingLoop.** `Serial`: only the tick whose promise `inFlight` holds is active, only
  it has trades. `Sized`: what a tick has seen covers what is held and on order, so
  what it is about to buy still fits (`ViewsSuffice`, `TradesFit`). `Barred`: a cleared
  trade means that nothing has leaked for its symbol yet, and under a halt that it was
  cleared before it (`LeaksAreCleared`).
  `TicksWindDown` counts the steps a tick has left (`TickWork`): each stage of `doTick` takes one, each trade
  two at most, and nobody else adds any; it assumes finitely many symbols, as a configured list
  is. `StopIsNotForgotten`: a stop that waits has a tick to wait for. With the fairness of section 5,
  the two are what `StopReturns` rests on.
- **PolicyRegistry.** `Registry`: what is promoted, or about to be by a request that has read
  its approval, was cleared. `JobsSettled`: a job's policy is settled before it can be decided
  on, so the request still names it. `Serving`: what rl-infer has read at its start was cleared, what
  it is about to activate is loaded. The refinement needs no lock: a rejection between read and write
  leaves the stage where it was, a deletion makes the write a stutter.
  `PromotionsLast` is the gate's promise read back into the table (`StagesInTable`, `GateMoves`): a
  promotion outlives rejections, and no late write revives a deleted policy.
- **TrainingWorkflow.** `RunsInOrder` and `ReportsInOrder` say what each stage of a background task
  has left behind, also after a statement that was applied and raised; `FlowsInOrder` that a workflow
  knows a run from its start on. Steps of one service keep what the others' invariants read
  (`FlowsKeep`, `ReportsKeep`). `WorkflowsWindDown`: the stages left times `MaxAttempts`, less the attempts
  of the present one, falls with every step of the workflow and never rises by another's. `RunsAreOwn`: a
  start that was served and counted as failed leaves its run to nobody. `ThresholdsDecide`: the
  Sharpe ratio compared is always 0 (section 7), so a positive threshold never promotes.
- **DatasetStore.** `Kept`: what a request has put is there unless it was hit.
  `UnsharedDatasetsAreWhole` speaks of behaviours in which no two requests under way or registered have
  one configuration: there no dataset is ever hit, so sharing is the only cause of loss. The split theorem is
  arithmetic over four facts about division (`QuotientBounds`, ...); that the last window ends at
  the last date follows from its share being all that is left.
- **MarketData.** `InStep`: the script is at most one chunk ahead of what is committed. `Ageing`: an
  entry's bars were current at its time (a request takes the time before it reads), which with
  the TTL test makes `ServedIsFresh`, whatever was dropped or overwritten meanwhile. `LoadIsTrue` says
  that a run has an outcome for each chosen table it is past and none for the others, so one
  without `--resume` and `--dry-run` and without an error has loaded all it was run for
  (`FullRunsLoad`).
- **Episodes.** `EnvIInv`: the array of positions holds, for each place before the current step, the
  row of that place. `OffsetsFit` bounds what may be drawn. `EngineIInv`: `BooksBalance` is
  inductive with the parity of units and position (`ParityStays`).
  `EpisodesFillArrays`: environment and simulator each count steps; the two never part, so the arrays
  are full when an episode ends and hold nothing of the one before. `TaskMoves` lists what a step may do to a report;
  from it, each symbol a report is past was measured, answered `{}` or passed over for fewer than 22 rows
  (`backtest/main.py:278-279`), one of the three and once, and a completed report has measured one at least
  and has none answered `{}` (`ReportsAreMeasured`; one such symbol fails a report,
  `backtest/main.py:302`). How many were passed over the code does not tell: the averages
  of a completed report may stand for a single symbol of those asked for.

Model-checked only: that `StopReturns` and `WorkflowEnds` come about (liveness under fairness is beyond the
prover; their safety halves are proved above), and the violations of section 7.

## 7. Findings

1. `orders_cancelled`: a row is shown `cancelled` while its order is open. Cancel
   trusts the row it read: no broker id (a submit still waiting, or timed out) means the
   broker is not asked. "4. On broker success, finalize to 'cancelled'"
   (`ordersService.ts:121`).
2. `orders_cancelling`: two overlapping cancels leave the row `cancelling` for ever:
   the second restores the status the first one had written. "restore state so the row doesn't
   get stuck in 'cancelling'" (`ordersService.ts:144-145`).
3. `trading_shorts`: a closed position keeps its last snapshot row, and the runner
   sells it again. "SHORT signal with no position -> no order (we do not open
   margin shorts)" (`runnerScheduler.test.ts:189`).
4. `trading_oversize`: a position above the limit cannot be closed, because the size
   limit applies to sales. "SHORT signal with existing long position -> sell to
   close it" (`runnerScheduler.test.ts:195`).

Noted by reading, no run needed: the runner's missing bearer token (section 3);
`MAX_DAILY_LOSS_USD` and `KILL_SWITCH_ENABLED` are read by no service although
`README.md:164-165` documents them; nobody posts the daily loss. And of the pipeline:

- Rejecting a policy leaves it promoted, and promoting one demotes no other: what
  rl-infer loads at its next start may have been rejected. `StartupServesApproved`
  therefore speaks of an approval at some time.
- `/backtest/run` answers a report id and `running`, never a Sharpe ratio, so a workflow
  takes 0 for it and promotes nothing with a positive threshold (`workflows.py:96-99`). Its call carries
  neither a token nor a policy id: with authentication on every attempt is refused, without it
  the report is of no policy.
- A workflow whose training failed ends as *completed*, so its id cannot be triggered again.
- Two datasets of one configuration share their files: deleting one leaves the other's row
  over deleted files, where `dataset-builder/main.py:417-419` expects orphans at worst. The history
  `hit` of DatasetStore is exactly this case.
- A stock without usable rows stays listed (`trading_env.py:106-119` looks only at stocks that
  have data) and raises when drawn. A training portion shorter than an episode reads held-out
  rows, against `trading_env.py:199-204`. `set_test_mode` is called by tests only.
- The environment pays a decision with the second return after it, the engine with the first: a
  policy is trained for one delay and tested with another (`NoLookAhead` states both).
- rl-train feeds bars without technical columns to the environment, which fills these, the
  return included, with 0 (`trading_env.py:166-170`).
- A symbol that the engine answers `{}` fails the whole report (`backtest/main.py:302`).
- A completed backtest lists all the symbols it was asked for (`backtest/main.py:299`), also those
  it passed over for too few rows.
- `--resume` skips a table at 80% of its expected rows for good. A dry run reports every table as `OK`,
  with the rows it has read, in the same summary as a run that stores them.
- The time stamp by which the risk service judges equity is that of its insert, not that of Alpaca's
  answer: a portfolio sync that waits long for the positions stores old equity as new, and two that overlap
  may leave the older of two as the newest snapshot.
- A sync run of the risk service whose answer stalls after its headers is never ended, and every later one is
  skipped until the process restarts (`portfolioSync.ts:76`): no property promises that
  the cron recovers.

## 8. Not modelled

- Numerics (features, returns, rewards, measures, learning) and presentation (web-ui, dashboard,
  CLI, notebooks apart from their environment): no state machine to check.
- api-gateway and auth are stateless. Rate limits, request validation, tokens (other than the one the
  workflow does not send), tracing and metrics are left out of every module.
- Price movement, margin rules and order types; two instances of one service (the
  deployment runs one of each).
- kaggle-orchestrator's file transfers (dataset upload, model download) keep no state. Nobody calls
  `create_kaggle_job` and `trigger_backtest_for_job`; the first is modelled because the job's
  handlers need jobs. `rl-train/ddqn_agent.py` is used by nobody.
- alpaca-adapter's streamer, market-ingest's consumer and keycloak_auth: planned.

## 9. Plan

What is left, in this order:

1. **StreamerLink** (`alpacaStreamer.ts`): connect, disconnect, reconnect timer, limit,
   close. Abstract specification: a link that is up, waiting or dead, and dead only after
   the limit or a close. Properties: no reconnect after close, at most one pending timer,
   retry counter reset only by a connect, liveness of reconnecting while under the limit.
2. **LiveBars** (`natsConsumer.ts`, drain): at-least-once delivery and idempotent upsert implement an
   abstract set of stored bars; a run for the subject under which live bars are published.
3. `keycloak_auth`: refresh of the JWKS cache against concurrent requests and an unknown key.
4. Left to prove: that the requests of DatasetStore and the threads of FeatureService wind down, as
   ticks and workflows do; a refinement of each new module.
5. Composition: positions and account of one portfolio sync in TradingLoop with more than one
   sync slot.
