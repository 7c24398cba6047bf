# TLA+ models of ta-agent

ta-agent predicts five-day returns of index members every day, settles the
predictions when their horizon has passed, retrains its models, replays the
predictions as a simulated account and trades the best ones on Alpaca and IBKR.
This directory holds TLA+ modules of the parts that keep state, run side by side
or can fail half-way, the TLC configurations that check them on small instances,
and TLAPS proofs of what holds for every value of the constants.

    tlc -config engine_benign.cfg AlpacaEngine      one run
    tlapm AlpacaEngineProofs.tla                    one proof module

`PROJECT.json` lists the components, the runs, the hazards with their source
lines, the mutants that show each property can fail, and the source lines of
every definition.

## 1. Inventory

| component | source | state it keeps | operations | talks to | what makes it correct |
|---|---|---|---|---|---|
| Trading daemon | `services/alpaca/engine.py` | three last-run dates in the state row, local copies of them | open run, stop arming, close mark, heartbeats | order helpers, broker, prediction log | each lot is bought and sold once; stops guard lots that are held; a recorded routine is not repeated; every lot leaves on its day |
| Order helpers | `services/alpaca/orders.py` | signals table | stage, approve and submit, reject | daemon, dashboard, broker | marks and orders agree; a link to an order is not lost |
| Process control | `services/alpaca/engine_state.py` | pids and status in the state row | start, stop, status | dashboard, daemon, sync loop | an engine that runs is on record |
| Sync loop | `services/alpaca/sync.py`, `db.py` | order, fill, position rows | poll, upsert | broker, dashboard | rows trail the broker, never go back, and catch up |
| IBKR service | `services/ibkr` | signals, account and order rows | connect, approve, reject, sync | Gateway or TWS, dashboard | a signal is ordered once; no unconfirmed live order |
| Predictions log | `packages/inference/tracking.py` | `predictions_log` | log, settle | scheduler jobs, API, drift check | a return covers exactly the horizon, from complete bars, and is written once; quintiles are cut from the whole date |
| Predictor, drift | `packages/inference` | the models it has loaded | load two heads, predict, check drift | registry, bar store | what is loaded is one whole save |
| Registry, retrain | `packages/modeling/registry.py`, `jobs/monthly_retrain.py` | model directories | save, find latest, revalidate, promote | trainer, predictor | a visible model is complete; promotion does not degrade |
| Features, labels, splits | `packages/features`, `labels`, `modeling` | none | panels, labels, folds, calibration | trainer, predictor | nothing reads a later day; no fold trains on what it validates |
| Paper engine | `packages/paper_trading/engine.py`, `routes/paper.py` | `paper.sqlite` | replay of the log, rebuild | scheduler, API | cash and equity balance; one exit per lot; openings do not change |
| Walk-forward backtest | `scripts/walkforward_backtest.py`, snapshot loop, restore | `predictions.sqlite`, backups | train, gate, predict, snapshot, restore | bar store | no look-ahead; a resumed or restored run loses nothing |
| Walk-forward page | `predictions_service.py` | one cached replay, a cache of answers | replay, swap in, answer | paper engine, backtest | an answer shows what was on file |
| Market store | `packages/ingestion`, four scripts | `ohlcv_daily`, `index_membership` | upserts of two adapters, timeline rebuild, clean-up | every job | membership is the real one; no partial bar survives |
| News | `packages/news`, `ingestion/sec_filings.py` | filings, texts, verdicts | classify, fetch, judge | predictions log, EDGAR | each pick is judged as what it was picked for |
| Scheduler | `jobs/scheduler.py`, `jobs/daily_*.py` | job table in memory | triggers, `_safe_run` | all of the above | overlapping jobs do not corrupt or starve one another |
| Regime filters, Alpaca client and reconciliation, frontend | | | | | stateless, I/O or read only |

What is hard in this code:

* **Two systems of record.** A signals table and a broker are written one after
  the other, by a daemon and by users at the same time.
* **A broker that moves by itself.** Orders fill and stops fire between any two
  steps; logins change under a running call.
* **Exact-date selection.** A lot is found again by its date being exactly
  `HOLDING_DAYS` sessions back; a missed window loses it.
* **Overlapping jobs** on SQLite files (one writer), a DuckDB file (one
  configuration per process) and a model directory without any lock.
* **Partial data that looks complete.** The bar of the running session, a model
  directory that is being written, a replay that is being built.
* **Look-ahead.** A row of training data, a validation fold, a trade at the open
  or a backtest must not depend on what came later.
* **Long scripts that are killed and resumed** from what the database holds.

## 2. The modules

| module | models |
|---|---|
| `AlpacaEngine` | the daemon, its tables, order helpers and broker |
| `LotBook` | the abstract promise: the life of a lot, no process or table |
| `AlpacaDesk` | approvals, sync loop, process control and status routes on one SQLite file |
| `IbkrDesk` | the same for IBKR, on top of its connections |
| `Settlement` | refresh, predict and settlement jobs on both stores |
| `PaperEngine` | the replay, its inputs and what the paper routes derive |
| `Lifecycle` | retrains, registry, predictor and drift check |
| `Panel` | pure: what features, labels, masks, folds and calibration read |
| `WalkForward` | the backtest over `Panel`, its backups and restores |
| `MarketStore` | membership timeline and bars |
| `News` | filings, cache, verdicts |
| `WalkStatus` | the caches of the walk-forward page |
| `MCLifecycle`, `MCWalkForward`, `MCMarketStore`, `MCDataStore` | constants for TLC that a cfg cannot write; the last one checks `MarketStore`, `News` and `WalkStatus` in one run |
| `AlpacaEngineProofs`, `AlpacaDeskProofs`, `IbkrDeskProofs`, `SettlementProofs`, `PaperEngineProofs`, `LifecycleProofs`, `DataStoreProofs`, `WalkForwardProofs` | theorems; `DataStoreProofs` is about `MarketStore`, `News` and `WalkStatus`, `WalkForwardProofs` about `Panel` too |

`AlpacaEngine` implements `LotBook` (`ImplementsLotBook`). `WalkForward` extends
`Panel`. `MarketStore`, `News` and `WalkStatus` share no state that a property is
about: `MCDataStore` lets a behaviour move one of them and leaves the others at
their start; of `MarketStore` it moves either the memberships or the bars. Definitions whose name has a suffix behind an underscore
(`Expired_OneLate`, `Purge_Short`) and a comment that begins with *Mutant* are
variants that `PROJECT.json` puts in place of the original; no specification
uses them.

## 3. The trading side

### AlpacaEngine

*State.* `day` and `phase` are the exchange's clock. `status` and `last` are the
durable tables; `order`, `stops`, `fired`, `pos` are the broker's; the rest is
the process: `pc` (down, idle, or its place in a routine), `mem` (the local
copies of `last` that `run` keeps), `closing`, `todo`, and the uncommitted marks
of one `approve_and_submit` call. A lot is a `<<date, symbol>>` pair.

*Actions.* One per durable step: `OpenRunBegins` (reconcile, then select),
`CancelStop`, `StageSignals`, `SubmitOrder` (accepted, refused, or timed out after
acceptance), `CommitBatch`, `MarkExpired`, `RecordRun`; `ArmBegins`, `ArmLot`,
`ArmEnds`; `RefreshBegins`, `RefreshLot`, `RefreshEnds`; `SweepRaises` (either sweep: its
date is not recorded and the next tick begins it again); `Start`, `Shutdown`,
`Crash`, `RunRaises`; the broker's `OpeningAuction` and `StopFires`, the calendar's
`MarketCloses` and `NextDay`.

*Abstractions.* One unit per lot; picks are any subset of at most `TopN` symbols;
whether bars, ATR or levels let a stop be placed is a choice. The phase changes
only between routines (they take seconds in a half-hour window).

*Faults.* `FaultNames` lists them; a run names those it allows, bounded by
`MaxAborts`. The split by fault sets is the point: the properties of
`engine_benign` fail as soon as the missing faults are added, section 6 shows how.
`NoOrphanStops` and `EachLotTradedOnce` hold under more faults than that run has:
missed windows, sweeps that raise, refused and unacknowledged orders
(`engine_calm.cfg`, and the theorems of section 7).

*Bounds.* Two symbols and `HoldingDays = 2` over three sessions let a symbol be
picked again while a lot of it is held, and let one lot expire while another is
young. `HoldingDays = 1` with one symbol and two or three sessions gives a full
life cycle plus the session after it, which is what a repeated run, a second stop
or a second sale needs.

*Fairness.* `LiveSpec`: weak fairness of the loop's steps (`run` ticks every
minute and each call returns or raises), of the calendar, and of `Start` (whoever
stopped the engine starts it again); none of faults, stops or shutdowns.

*Refinement.* `Book` reads a lot's abstract state off the broker's orders. Under
benign faults each step of the daemon is a step of `LotBook` or leaves it
unchanged; in particular the auction that fills a `CLOSE_LONG` comes exactly
`HoldingDays` sessions after the entry.

### AlpacaDesk

*State.* `writer` is the connection that holds SQLite's write lock, from its first
write to its commit or rollback. `desk[u]` is the `approve_and_submit` of a user,
with the marks only its own connection sees; `row` the engine state row;
`live`/`spawned` the detached processes and their pids; `oper[c]` and `poll[v]` the
places of `start`/`stop` and `status`; `tick[p]` one iteration of a sync process;
`table` its order, fill and position rows.

*Actions.* `ListPending`, `Refuse`, `Submit`, `MarkPlaced`, `CommitBatch`,
`AbortBatch`, `Reject`; `StartReads`, `StartSync`, `StartEngine`, `StartRecords`,
`StopReads`, `StopKills`, `StopRecords`, `PollReads`, `PollUpdates`, `EngineEnds`,
`SyncDies`, `SyncByHand`; `TickBegins` (the account row, which takes the lock),
`TickPositions`, `TickOrders`, `TickCommits`, `TickFails`; `BrokerFills`,
`BrokerExpires`.

*Bounds.* Two orders of two shares give partial fills beside a second order; two
processes of each kind and one fault give a stale row, a restart and two sync
processes at once. *Fairness:* calls that were made and processes that run go on;
`SF` of `TickBegins`, because the lock is free again and again and SQLite's busy
handler retries until it gets it. People, fills and failures are free.

### IbkrDesk

*State.* `up` is where a Gateway or TWS is logged in, `links` the connections (one
per port and client id, which the broker enforces), `client[c]` a connection
attempt and its batch, `lost` how often a batch had sent a signal and then lost its
session or was rolled back, `table` what the dashboard reads.

*Actions.* `Login`, `Approve`, `Probe` (one port), `Connected` (with the live
confirmation), `Disconnect`, `ListPending`, `Refuse`, `PlaceOrder`, `MarkPlaced`,
`PlaceStop`, `CommitBatch`, `AbortBatch`, `Reject`, `SyncConnects`, `Tick`,
`TickFails`.

*What it shows.* Nothing in `orders.py` keeps two approvals from submitting the
same signal; the broker's one connection per client id does, because an approval
connects before it reads the pending signals and disconnects after its commit. A
batch that loses its session in between can be ordered again by the next one;
`OrderedOncePerAccount` counts these exactly. *Bounds:* two users, one signal, one
paper and one live port, one fault. *Fairness:* the sync loop and calls that were
made go on.

The dashboard's table holds orders of the sync loop's own client id, since
`ib.trades()` returns no others, and approvals order under another one:
`SyncFollows` therefore promises that the table comes to be that of the account the
loop is connected to, not that the orders of a user are in it (section 6).

### PaperEngine

*State.* `market` is the truth, `bars` and `picks` what is stored of it, `book` a
replay with its open transaction, `tables` what is committed, together with the
inputs it was made of (`tables.in`, a history variable).

*Actions.* `Refresh`, `Predict`, `Load`, `Begin`, `Trade` (one step of one trade date:
mark at the open, expire, weigh, buy, stop out, mark at the close), `Commit`,
`Rollback`, `Seed` for the scheduler's tick and for a user's rebuild; `Close`,
`Open` for the clock.

*Abstractions.* The arithmetic is the code's, in whole units rounded down. A
session is one of a few shapes, first seen five minutes in and then in full.
*Bounds:* three sessions with `Holding = 2` cover a life cycle, one moving symbol
beside a flat one, two rebuilds or failing steps. No liveness is claimed:
`ClosesLand` states the deadline (the end of the next session's last tick) as an
invariant.

## 4. Data, models and predictions

### Settlement

*State.* `bars` with the completeness of each bar; `prediction`, `realized` and
`quintile` are the columns of `predictions_log`, each with what it was computed
from. A job has its remaining steps (`agenda`), its place (`at`) and local
variables; `writer` holds SQLite's write lock.

*Actions.* `SettleSelects`, `SettleConnects`, `SettleRows`, `CommitReturns`,
`ReadGroup`, `WriteGroup`, `CommitQuintiles` are `settle_predictions`;
`BeginRefresh`, `Download`, `RefreshEnds` are `daily_update`; `OpenFeatures`,
`ComputePredictions`, `LogPredictions` the rest of `daily_predict.run`. A step
that raises ends (`_safe_run`) and the job goes on.

*Libraries.* APScheduler runs jobs on threads of one process, one instance of
each. DuckDB does not open a file read-only while the same process has it open
read-write, or the reverse. SQLite has one writer; a waiter may give up at any
moment. Windows counted in calendar days are counted in sessions.

`QuintilesCurrent` is the surprising one: a group is read without a lock and a job
can lose its write to a timeout, but two settlements that overlap always selected
the same rows before either committed, or see the same bars, so the last one to
write ranks the whole date.

*Bounds.* Two symbols give dates that are settled in two parts; with `MinGroup = 1`
(5 in the code) even a single settled row is ranked. A horizon and an overlap of
one session keep the code's relation between the two. A symbol whose downloads
fail for longer than the overlap leaves a hole for good; `HorizonExact` holds as
long as no more than `Overlap + 1` refreshes are lost (section 7), and TLC finds it
violated when `MaxFails` is one more. *Fairness:* triggers fire while the scheduler is up, steps
return or raise, the process is restarted; missed triggers are missed or not.

### Lifecycle

*State.* `registry` holds, per head, the directories in the order of their names with
the files written so far; `job` where each retraining thread stands; `predictor`
what it found and loaded; `ic` the settled days.

*Actions.* `Trigger`, `DriftCheck`, `Judge` (revalidate the incumbent), `Train` (with
the promotion gate), `MakeDir`, `Write` (one file), `SaveFails`, `ScanLabels`,
`Load`, `Log`, `NextDay`, `Die`. Nothing serialises retrains and the registry has
no lock: what saves the predictor is that metadata.json is written last.

*Bounds.* One scheduled and one emergency job, two days on which both can run, two
retrains in all, one death. Metrics are chosen on both sides of the gate,
negative ones included. *Assumption:* two directories never get the same
second-resolution name.

### Panel and WalkForward

`Panel` identifies a feature with the bars it reads, a label with the day of the
close it ends at: look-ahead is about dates, not values. `JoinReads` adds the memberships: a
day is ranked and averaged over every symbol that is a member by the end of the
panel, so it rests on the days those symbols joined. Only the swing features
keep values (highs), because they choose what to read by them. `Split` is
`PurgedWalkForwardSplit`, `Knows` the latest day that a trained and calibrated model
has seen anything of. Days are numbered from 1 and bars are on days; that is all
the data must satisfy.

`WalkForward` is the script: `Start`, `CopyEnds`, `Open`, `Skip`, `Train`, `TrainFails`,
`BuildPanel`, `PanelFails`, `PredictDay`, `DayFails`, `WindowEnds`, `Report`, `Die`, beside
`Snapshot`, `SnapshotDies`, `Lose`, and `RestoreStage`, `RestoreMove`, `RestoreRename`,
`RestoreDies`. `FitResult` and `PanelResult` are what a training and a feature build
leave behind for a retrain date, whichever extensions had data. A model also knows
what its hyperparameters rest on: those of the retrain that tuned them (`Tuned`),
or of the production model (`Production`). A backup is `Valid` for a restore when it
is whole and of a size (`MinValid`) that some copies worth making are not. The gate's
verdict on a head is any. *Bounds:* two months over
nineteen days, three symbols (one with missing bars, one that joins late), one
death, one failure, one lost database, three copies. An operator restores only
while the backtest is down, and notices a lost database before restarting it.

### MarketStore, News, WalkStatus

`MarketStore`: `Timeline` is `_reconstruct_timeline` against the real history `was`;
`YfPull`, `IbPull`, `IbBackfill`, `Freshen`, `BackfillDelisted`, `CleanUp`,
`RefreshUniverse` write by upsert: a day of a symbol has, per exchange, a row of each
source, and the newest of them is known. `Read` is what the readers' queries
return when two sources have a row. The page lists additions truly; a removal may
be missing from it (`unlisted`), changes may be announced the day before, and its table
of constituents may show them a day `early`. `CleanUp` deletes any single rows
(whether a bar jumps, is cheap or hardly traded is not modelled), then the
memberships of the `Reassigned` tickers and of symbols left without a bar; `dropped`
remembers the days whose bar it took. *Bounds:* five days; four changes of a symbol
that comes and goes, beside a reassigned ticker that is a founder or never there; the
bars of one member; one operator script; a clean-up that finds nothing, everything, one
row or those of one day bad.

`News`: `RefreshFilings`, `Start`, `Rank`, `NextPick`, `FromCache`, `Receive`, `Judge`,
`NextSide`, `Abort`, `Predict`, `Tomorrow`. `Picks` is every ranking that the query can
return: rows of equal score come in any order. Scores are integers, tables of
them may lack a symbol. *Bounds:* two share classes of one filer,
one filing with an exhibit, two days, two runs, predictions logged twice.

`WalkStatus`: `Ask`, `LookUp`, `Reuse`, `Enter`, `LoadReplay`, `FinishReplay`, `SwapIn`,
`ReadYears`, `Answer`, `GiveUp`, `RestartApi` of the requests, `LogDay`, `TakeCopy`,
`Restore` beside them. Rows are named by the time they are logged. `unseen` is exactly
what the file times cannot tell of, until the next day is logged; `told` is the rest of
what was on file when a request came. *Bounds:* two requests, four writes, one copy
and one restore, a cache of one answer.

## 5. Runs

| run | setting | shows |
|---|---|---|
| `engine_benign` | restarts, refused entries | `BooksMatchBroker`, `NoOverdueLot`, `NoOrphanStops`, `EachLotTradedOnce`, the liveness `EveryLotExits`, and that the daemon implements `LotBook` |
| `engine_faults` | all faults | `TypeOK`, `PlacedHasOrder`, `ClosedIsExplained`, `NoStopInAuction`, `RunNotRepeated`, `ClosedGetsNoStop` |
| `engine_rearm` | one crash | finding: a sweep that is repeated places a stop for shares already sold |
| `alpaca_desk` | one approver, one operator, one poller, up to two sync processes | `EnginesAreRecorded`, `RowsTrailBroker`, `LinksStay`, the liveness `DashboardCatchesUp` |
| `ibkr_desk` | two approvers, a paper and a live port | `OrderedOncePerAccount`, `LiveOrdersConfirmed`, the liveness `SyncFollows` |
| `settlement_jobs` | three overlapping jobs, a failing download | `HorizonExact`, `QuintilesCurrent`, `ReturnsStay` |
| `settlement_live` | the pipeline alone, two faults of any kind | the liveness `EveryPredictionSettles` |
| `paper_engine` | ticks, rebuilds, failing steps | `BookBalances`, `PositionsAreOpenLots`, `ExitAsPlanned`, `ClosesLand`, `OpensAreFinal` |
| `paper_hindsight` | one session, no fault | finding: the picks of a day's opening trades are replaced after its close |
| `lifecycle` | two overlapping retrains, one death | `LoadedIsOneSave`, `EmergencySparesTheYoung` |
| `walkforward` | kill, failure, loss, restore; every retrain tunes | `NoHindsight`, `FoldsArePurged`, `GapsAreFailedDays` |
| `datastore` | memberships, bars, news or page, one per behaviour | `TypeOK`, `TimelineIsFaithful`, `ClosedRowsAreTrue`, `TrueDaysAreKept`, `PulledDaysReadFinal`, `PicksAreJudged`, `NoStaleAnswer` |

Each property is stated with its comment in its module. Its mutant in
`PROJECT.json` is a plausible bug of the code under which the same run fails.
`CHECK_DEADLOCK FALSE` stands in the configurations whose bounds let everything
come to rest (no more users, orders, retrains, days).

**The findings.**

* `paper_hindsight` violates `PicksKnownAtOpen`. The header of the paper engine says that
  a day is traded on predictions made off yesterday's close (`engine.py:8`,
  `scheduler.py:370-371`). The evening tick logs the same `as_of` again with features
  that contain the day's close, and the replay of that tick buys the day's slice at
  its open with them. What does hold is `OpensAreFinal`: with the same picks, no
  decision at the open looks at the session.
* `engine_rearm` violates `NoStopAfterFire`. The docstring of the arming sweep calls it
  idempotent and "Safe to re-run" (`engine.py:683-684`). It looks for OPEN stops of
  lots that are PLACED, and a lot whose stop has fired is PLACED until the next
  reconciliation: a process that dies between the sweep and the write of its date
  sweeps again and sells the shares a second time. What does hold, under every fault,
  is `ClosedGetsNoStop`.

## 6. Known limits

### Promised and not kept

For each line, a document, a comment or a docstring of the repository says one thing and
the code does another. The property states the promise in the module, and the
configuration beside the runs refutes it on a small instance
(`tlc -config settlement_partial.cfg Settlement`).

| configuration, module | property | promise | what happens |
|---|---|---|---|
| `settlement_partial`, `Settlement` | `SettledOnFinalBars` | "We never settle predictions whose horizon hasn't closed yet" (`tracking.py:7-9`) | the morning tick settles on the partial bar of the running session (`tracking.py:195`) and the return is never corrected; no fault is needed |
| `ibkr_orders`, `IbkrDesk` | `DashboardShowsOrders` | "The sync loop is the source of truth for the dashboard" (`ibkr/sync.py:5`) | `ib.trades()` (`sync.py:91`) gives the orders of client 10, approvals order as client 11 (`connection.py:32-33`): an approved order is never in the table |
| `lifecycle_gate`, `MCLifecycle` | `ReplacesItsEqual` | promote only if at least 80% of the baseline, or there is none (`monthly_retrain.py:8-10`); fall back to the prior baseline when it cannot be computed (`train.py:285-287`) | an incumbent that cannot be scored counts as none (`monthly_retrain.py:126`) and any candidate replaces it |
| `lifecycle_race`, `MCLifecycle` | `ScoredAgainstDeployed` | compared with "the currently-deployed model" (`monthly_retrain.py:4-10`) | two retrains judge the same incumbent before training; the second replaces the first one's model, which it was never compared with (`monthly_retrain.py:228`) |
| `walkforward_borrowed`, `MCWalkForward` | `NoHindsight` | "look-ahead-free" (`README.md:213-215`) | by default all models carry the hyperparameters of the production model, tuned on the months under test (`walkforward_backtest.py:115`); its option's help calls that look-ahead (822-825) |
| `walkforward_cadence`, `MCWalkForward` | `CadenceIsKept` | tune at the first retrain of a quarter and reuse (`walkforward_backtest.py:634-640`) | a resumed pass skips the tuned month and fits the rest with the borrowed ones (628-633) |
| `walkforward_joiners`, `MCWalkForward` | `JoinersStayOut` | the mask keeps a stock's pre-membership history out of cross-sectional ranks (`features/pipeline.py:12-15`) | ranks and regime run over every symbol of the panel, the mask comes after (158-173, 281-285) |
| `walkforward_folds`, `MCWalkForward` | `LabelsStopBeforeValidation` | a row whose label crosses into validation is dropped (`splits.py:12-25`) | purge counts dates, labels count bars: a symbol that misses bars leaks by as many |
| `walkforward_restore`, `MCWalkForward` | `RestoreTakesNewest` | "Picks the newest file" (`restore_predictions_backup.py:1-6`, 65, 123) | sorted by name, every startup copy comes before every snapshot of the loop |
| `membership_whole`, `MCMarketStore` | `TimelineIsWhole` | a timeline for "every company that has ever been in the index" (`sp500_history.py:10-11`) | a constituent that left and came back has its present stretch only (203, 223) |
| `membership_open`, `MCMarketStore` | `OpenRowsAreCurrent` | "For each removal, find the matching current row ... and set its end_date" (`sp500_history.py:176-177`) | the closed row of a leaver without a known addition starts at RELIABLE_START, its open row at the page's date: two keys, so the open row stays and it counts as a member for good |
| `membership_early`, `MCMarketStore` | `StartsAreTrue` | the last addition is "the true start_date for this membership stretch" (`sp500_history.py:196-197`) | a former member that the constituents table shows a day early starts at its earlier addition, since the coming one is filtered (200) |
| `walk_page`, `WalkStatus` | `StalenessIsDetected` | "Staleness is detected by mtime" (`predictions_service.py:1140-1142`) | a day logged while a replay is being built is older than the replay, which is served without it until the next day is logged; likewise a restored snapshot, which keeps its time |

### Not promised

Behaviour of the code that the models show and that no document speaks of. TLC violates
the properties named in the table, which are in the modules, under the constants given.

| module | constants | property | what happens |
|---|---|---|---|
| `AlpacaEngine` | A, `Faults = {"exception"}` | `EachLotTradedOnce` | an open run that raises is retried from the start and submits again (`engine.py:917`) |
| `AlpacaEngine` | A, `Faults = {"missed"}` | `NoOverdueLot` | a lot whose expiry window was missed stays held (`engine.py:493`) |
| `AlpacaEngine` | A, `Faults = {}` | `NoOpposingOrders` | a symbol that is picked again is bought against its own working stop (`engine.py:643`) |
| `Settlement` | B, all three jobs, `MaxFails = 0`, `Faults = {}` | `EveningBarsFinal` | the evening refresh fails as a whole when another job reads (`yfinance_adapter.py:333`) |
| `Settlement` | B, `Jobs = {"pipeline"}`, `MaxFails = 1`, `Faults = {"crash"}` | `QuintilesCaughtUp` | a death between the two commits loses a date's quintiles (`tracking.py:244`) |
| `PaperEngine` | the run's, `LastDay = 2`, `MaxUpsets = 3` | `ClosesLand` | three ticks in a row that fail leave a close out of the tables past the deadline |

A: `Symbols = {a, b}`, `TopN = 1`, `HoldingDays = 2`, `MaxDay = 3`, `MaxAborts = 1`.
B: `Symbols = {a, b}`, `Horizon = 1`, `Overlap = 1`, `MinGroup = 2`, `MaxDay = 3`.

Others, met while modelling; the properties are stated so as to except them:

* *Alpaca engine.* A lot is CLOSED also when its CLOSE_LONG was refused and its shares
  are still held (`engine.py:652`); `ClosedIsExplained` takes a refusal for an answer.
* *Alpaca desk.* Two approvers of one batch can both submit it (`orders.py:198`);
  two operators starting at once leave an unrecorded engine, and so does an API
  process that dies between the spawn and the update; pids are assumed not to be
  reused; a flat account keeps its last position row (`sync.py:86`); the risk caps
  look at one order at a time (`orders.py:133`).
* *IBKR.* Two paper surfaces logged in at once (ports 4002 and 7497) are two
  accounts with a client id each, so a signal can be ordered in both. The stop
  that `ibkr/orders.py:214-215` says the sync loop refreshes is never refreshed.
* *Paper engine.* Morning ticks evaluate stops on partial bars. The cash can be
  negative during a session without leverage, against the comment at
  `engine.py:1140`; the interest charged is in no trade row. A name without an ATR
  keeps its raw score as weight.
* *Lifecycle.* A death while metadata.json is open leaves an empty file that stops every
  later retrain (`monthly_retrain.py:58-76`). The logged version can be older than the
  model that scored. A negative baseline times 0.8 is a higher bar than the baseline.
  Revalidation folds cover dates the incumbent was trained on. The pipeline's and the
  nightly drift check can both retrain.
* *Walk-forward.* A pass that failed on a day in the middle of a month does not go back
  to it. Resuming loses the gate's incumbents. A crash between the restore's two
  renames leaves no database. A startup copy is made of files from a smaller size on
  than a restore accepts (`walkforward_backtest.py:510`,
  `restore_predictions_backup.py:32`).
* *Market store.* A removal that the page does not list leaves an open row. A member
  counts as one on the day it leaves too (`query_membership_at` includes both ends).
  Leaving and returning between two refreshes is not seen. Bars adjusted on different
  days have different bases. The clean-up takes the memberships of FB, NCC and PCLN
  whatever bars they have, the true years of FB among them, and those of members
  whose bars are not pulled yet; the next rebuild brings back what the page yields.
  `jobs.daily_ingest`, run by hand, imports an adapter that is not in the repository.
* *News.* A failed fetch caches an empty text for good (`edgar_fetcher.py:305`), and a
  slower classifier can put it over a text. Two share classes of one filer take
  each filing from each other (`sec_filings.py:211`). A pick that changes sides gets the
  verdict of the later one in place of the earlier. Verdicts of symbols that are no
  longer picked stay. `--as-of` a past day sees later filings.

## 7. Proofs

The theorems hold for every value of the constants that satisfies the
assumption of the module (`EngineAssumption`, `DeskAssumption`, ...).

`AlpacaEngineProofs`, first for **every** set of faults:

* `TypeCorrect`, by `TypeInv`, which adds that a lot in `closing` is old enough for
  its `CLOSE_LONG` row to exist.
* `PlacedHasOrderHolds`: `PlacedInv` adds that an uncommitted PLACED mark also has an
  order; an order once given stays (`OrdersStay`).
* `RunNotRepeatedHolds`: `RunInv` relates the process to the state row, so that the
  steps that submit and a recorded day exclude each other.
* `NoStopInAuctionHolds`: `DatesInv` (no row or stop of a later day is in use) and
  `AuctionInv` (stops are worked on only after today's auction).

* `ClosedIsExplainedHolds`: `CloseRowsInv` says that the `CLOSE_LONG` row of a lot was
  staged on its expiry day by this run or by one whose number does not come back,
  and `ClosingRowsInv` that a lot being marked has such a row, answered by the broker.
  The answer may be a refusal.
* `ClosedGetsNoStopHolds`, whatever sweep is cut short and repeated. `FateInv`: the open
  rows of a lot share its fate, a lot of today is closed only after its auction, and
  what a sweep still has to do is PLACED; so no batch of a repeated run brings a
  closed lot back to a state in which it would be armed.

Its second part needs faults to be left out, because the code gives no such
promise under all of them (section 6); each group leaves ever fewer:

* Under `Calm` (no crash, exception, lost heartbeat, failed reconciliation or failed
  cancellation; sweeps may raise): `NoOrphanStopsHolds`, `EachLotTradedOnceHolds`. A stop may be placed by a sweep that selected its lot
  earlier, and a lot sold by a run that selected it before; `CalmInv` and `TradeInv`
  therefore say what is known in each place of the daemon: `RowsInv`, `BatchInv`,
  `StopsInv`, `ClosingInv`, `SoldInv`.
* Under `Punctual` (`Calm`, and no routine is skipped and no calendar wrong):
  `NoOverdueLotHolds`, by `DueInv`: a managed lot is not older than `HoldingDays`, and
  that old only until the run of the day has closed it.
* Under `Benign` (restarts and refused entries only): `BooksMatchBrokerHolds` and the
  refinement `ImplementsLotBookHolds`, the initial state and each step. `BookInv` adds
  when the broker's orders fill (`FilledInv`) and that every order given is marked or
  about to be (`MarkedInv`). `PosInv` counts: the position in a symbol is the number
  of its lots that `Book` has as held, and each step moves one lot, or a set of lots
  of an auction, in or out of them; for the cardinalities of such sets the set
  library has what is needed.

`AlpacaDeskProofs`:

* `RowsTrailBrokerHolds`, for any number of sync processes. `RowsInv`: whoever is
  past `wait` holds the write lock (`Locked`), so what a tick has seen of the orders is
  at least what the table holds (`SeenTrails`) and what the broker has only grows.
* `EnginesAreRecordedHolds`, assuming `OneOperator`. `PidInv` says what is known of
  the running engines at each place of `start` and `stop` (`Known`): none between the
  check and the spawn, at most the one in hand before it is recorded or killed.
  Any number of pollers may rewrite the row's status meanwhile; they never touch
  its pid.
* `LinksStayHolds`, for any number of approvers and faults. What any batch writes over
  a row keeps an order number that is there (`CoalesceKeepsOrder`); nothing else
  writes signals.

`IbkrDeskProofs`, for any number of users, logins and lost sessions (the run has one):

* `OrderedOncePerAccountHolds`. One connection per port and client id makes a linked
  batch the only one at its account, what it still has to do is pending and
  unsent (`TodoIsFresh`), and every order is accounted for by a mark, a batch in
  progress or a loss (`OrdersCounted`).
* `LiveOrdersConfirmedHolds`.

`SettlementProofs`:

* `HorizonExactHolds`, under every fault, crashes included, assuming `ShortOutage`
  (`MaxFails <= Overlap + 1`). `BarsInv`: the bars of a symbol have no hole, and those
  that the lost refreshes have not reached are complete; one session is behind
  each morning (`Slack`), which is where the one beside the overlap goes. `AgendaInv`
  says which steps a job can still have before it and that only the pipeline
  refreshes.
* `QuintilesCurrentHolds`, assuming `NeverDies` (no crash; failing downloads, refused
  connections and lock timeouts are allowed). Two commits separate the returns
  from their quintiles and a group is read without the write lock. `RankingInv` has
  `StoreInv` and `LockInv` (the two locks), `TodoInv` and `ExhaustedInv` (every settlement
  has selected all that can be settled), `GroupsInv` (what was read stays whole until
  it is written) and `RankInv` (while a date is unranked a job is on its way to rank
  it, and every such job will).
* `ReturnsStayHolds`, assuming `NeverDies`. `ReturnsInv`: before a refresh changes the
  bars nothing is left to settle (`FreshInv`, `MorningInv`), so two settlements that
  write the same row write the same return (`SameOutcome`). With a crash TLC finds a
  row written twice: its settlement dies, and its successor meets other bars.

`PaperEngineProofs`, for any bars, predictions, symbols, holding period, starting
cash and number of rebuilds and failing steps:

* `BooksBalance`, `PositionsAreOpen`, `ExitsAreKept` from one invariant, `PaperInv`: the
  replay that holds the transaction has a book that satisfies `BookInv`, and the
  committed tables are those of such a book with all its dates done (`Settled`), so
  neither a rollback nor the other writer can be seen in them. `BookInv` is about a
  replay in the middle of a day: `Ledger` (an open lot has its opening row and no
  closing one, any other opening row has exactly one), `Dated` (closing rows come
  within `Holding` trade dates of the opening one and, but for stops, not before;
  open lots are younger), `Held` (the position rows of each past date are the lots
  open after it) and `Money` (the cash and the basis of the open lots are the
  starting cash and the realized profit; that profit is the sum over the closing
  rows unless interest was charged, which needs a negative cash). One lemma per
  step of a trade date shows that the step keeps it (`MarksAtOpen`, `Expires`, `Weighs`,
  `Buys`, `StopsOut`, `MarksAtClose`).
* `OpensStayFinal`. `Replayed` says that a book is the end of a sequence of steps from
  a fresh one, and `TraceInv` that the open book and the one behind the tables are.
  Two inputs that agree up to the open of a day (`Alike`) give the same dates,
  windows, weights, stops and slices up to it (`DatesAlike` to `SlicesAlike`), so
  their replays write the same books until the day is bought, in the same step of
  both (`StepsAlike`, `Meet`); what follows adds neither a lot nor an opening row of
  that day (`DayIsFinal`). The first difference of the two is taken as a minimal
  counterexample, not by induction.
* `ClosesDoLand`, assuming `FewUpsets` (`MaxUpsets <= 2`: failing steps and rebuilds
  together; with three TLC finds a late close). A close has three ticks, its own
  evening's and the two of the next session; `LandInv` counts how many upsets it has
  cost that the store, what a writer has read, or the tables are not up to date
  with the sessions before, at each place of the day, and `MarkInv` says that a
  replay marks every close but the one it skips.
* The sums over lots and rows are folds of the community modules. That the
  recursion behind them has a solution, that sums of integers are integers, that
  any element can be taken out first, and that sums of disjoint sets add up
  (`SumsAre`, `SumInt`, `SumTake`, `SumUnion`, `SumImage`) is each shown on a minimal set
  for which it would fail.

`LifecycleProofs`, for any metrics and any number of overlapping retrains and deaths:

* `LoadedIsOneSaveHolds`, `EmergencySparesTheYoungHolds`, from one invariant `IInv`: a
  directory is written by the one job that made it and its metadata comes last
  (`DirsAreOwned`), so what a scan found is complete (`FoundIsComplete`,
  `LoadedIsFound`); what an emergency retrain is about to replace is old enough
  (`ReplacedIsOld`).

`DataStoreProofs`, three parts:

* The market store, for any number of symbols, days, overlap and any clean-up.
  `IndexInv`: a change on the page is one that took effect (`TookEffect`) or is
  `Pending`, and between two days on which the membership differs the page has a
  change of the right kind, but for unlisted removals; the dates the rebuild takes
  maxima and minima of are therefore the true ones.
  * `TimelineIsFaithfulHolds`: the timeline has the days `Known` and no others. For a
    constituent the last addition so far is where its present stretch begins; for
    another symbol the first removal after each addition is where that one ended.
  * `ClosedRowsAreTrueHolds`, by `ClosedInv`: a closed row ends today at the latest, or
    tomorrow with the removal announced, so that no later day disproves it.
  * `TrueDaysAreKeptHolds`: a rebuild that replaces a row which begins by a true day has
    itself a row that covers the day (`TrueDayCovered`).
  * `PulledDaysReadFinalHolds`, by `BarsInv`: besides the days that were pulled, those in
    the window of the next pull that it will not ask for again (they are further back
    than the overlap) read final too, unless they are in `dropped`.
* The news pipeline, for any stocks, filings and scores: `PicksAreJudgedHolds`.
  `IsSound` says of each classifier that what it has loaded it has judged or has
  still before it, on one side of one day.
* The walk-forward page, for any number of requests, writes and restores:
  `NoStaleAnswerHolds` and `LockIsHeldHolds`. Rows are named by the time they are
  logged; the lock makes the time of the replay on disk monotone, and an answer
  contains the rows that were certain when it was asked for. A row stops being
  uncertain with the next day that is logged.

`WalkForwardProofs`, for any market, membership, calendar, gap, horizon, number of
folds, failures, deaths, lost databases and restores:

* `NoHindsightHolds`. Lemmas about `Panel`: no row reads a later day (`RowsArePast`, one
  lemma per feature group that is not just trailing; for the swings
  `SwingsArePast`), a label ends at a loaded bar (`LabelIs`), so a training set knows
  nothing after its end (`KnowsIs`; the symbols it is ranked with had joined by then,
  `JoinsAreIn`), which is before the retrain date (`FittedIs`). The theorem assumes that
  every retrain tunes; without it the borrowed hyperparameters are known from the
  future and TLC refutes the property (section 6). Memberships of the prediction
  panel are the subject of `JoinersStayOut`, which does not hold.
  The invariant carries this from the deployed models to the logged rows and
  through copies and restores (`HonestLog`).
* `FoldsArePurgedHolds`. `FoldIsPurged`: between the last training date and the first
  validation date there are at least as many dates as the label reaches bars
  ahead; `DatesBetween` counts them.
* `GapsAreFailedDaysHolds`. `InOrder`: if the last day of a window is logged, then so
  are the others or they were passed over. It holds of every database, present,
  copied or restored, which is why skipping a window by its last day is right.

Where a proof needs a greatest or least element of a finite set (`GreatestElement`,
`MaxIs`, `MinIs`), it comes from the well-foundedness of the strict subsets of a
finite set (`WFMin`), since the library's induction theorems cannot be used.

**Model-checked only.** The liveness properties (`EveryLotExits`,
`EveryPredictionSettles`, `DashboardCatchesUp`, `SyncFollows`): they are out of the
provers' reach. Every other property of a passing run is proved for every value of
the constants, under the assumptions named above.

## 8. Not modelled, and why

* Numeric code without state: indicator values, LightGBM, Optuna, calibration
  curves, evaluation metrics, the regime gates. The models keep what such code
  reads and let its result be anything.
* Remote and text I/O: Wikipedia parsing, EDGAR text extraction, language model
  prompts, quote downloads. Macro and earnings tables are filled by such code and
  read by `Panel` only.
* The frontend, the Alpaca client wrapper and the reconciliation report keep no
  state of the system. The API routes that only read are left out where a model
  already has the table they read.
* One-off reports and analyses under `scripts/`.
* Within modelled parts: the refresh of SPY at the head of a pipeline tick, the save of a
  classifier without calibration, prices and share counts on the Alpaca side, FVG targets,
  leverage, Indian costs, benchmark and tax overlays of the paper engine,
  `next_day_picks`, NIFTY100 and the IB variant of a tick, IBKR staging and fills.
