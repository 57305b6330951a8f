# Formal verification of Futuris

Futuris is a forecasting service: an HTTP API (FastAPI, one asyncio process)
over a relational store (Oracle through SQLAlchemy sessions), an in-process
scheduler, clients of peer services, a worker-process pool for model fits, and
a set of reliability building blocks (`futuris/upgrade`).  A forecast is born
active, is withdrawn, expires, or is resolved by an immutable outcome; the
answers the service gives about that lifecycle are what other systems build on.

This directory holds TLA+ modules translated from that code, the TLC
configurations that check them, and the theorems TLAPS proves about them.
`PROJECT.json` maps every definition to the source lines it stands for and lists
the hazards, the runs, the mutants that show each property can fail, and the
disagreements between code and documentation that the runs exhibit.

Run `tlc -workers 2 -config <run>.cfg <module>` and `tlapm <module>.tla` here.

## Inventory

Paths are below `src/futuris/` unless they start with `src/`.

| Component | State | Operations | Hard behaviour | What makes it correct | Module |
|---|---|---|---|---|---|
| Forecast store (`storage/`) | tables forecasts, outcomes, forecast_events; sessions, row locks | create, transition_status, update_status, record_outcome | READ COMMITTED interleavings, the unique outcome row, lost updates | resolved exactly when an outcome row exists; outcomes are write-once | `ForecastStore`, `ForecastPromise` |
| Forecast API (`api/routers/forecasts.py`, `deps.py`) | one session per request | create, predict, invalidate, resolve-manual, listing, replay | the commit happens in the teardown, after the response | what was told is stored; a request is all or nothing, even if the acknowledgement of its commit is lost; the past does not change | `ForecastLifecycle`, `ForecastHistory` |
| FRIDAY API (`api/routers/friday.py`) | one session per request; idempotency keys | delegate, cancel, resolve, tasks, scenarios | retries of one delegation, commit failure, replay | a success is durable; one key, one forecast | `ForecastLifecycle`, `FridayDelegation`, `AccessGate`, `ScenarioRuns` |
| Scheduler (`infra/scheduler.py`) | one session for all jobs and the life of the process | calibration sweep, refresh, backtest, ingestion | no commit, no rollback, jobs extend a list that others walk over | what a job resolves becomes visible; a pass serves every subscribed pair, once | `ForecastLifecycle`, `TelemetryIngest` |
| Lifecycle sweep (`core/lifecycle.py`, `cli.py`) | one session | list, invalidate, resolve, expire | acts on statuses read long ago; a failing flush in the middle | all or nothing; replaces no outcome; blocks nobody | `ForecastSweep` |
| Process (`api/app.py`, `demo/seed.py`, `storage/db.py`) | tasks, jobs, session, worker pool, HTTP client, engine | start, run, stop, die | jobs cut and fits running during the ordered shutdown; whatever is closed opens again on use | what is closed stays closed; the shutdown ends | `ServiceProcess` |
| Peer circuits (`infra/resilience.py`, `ecosystem/`) | per peer: state, failures, half-open slot | allow, record success or failure, reset | late results, resets under a probe | one probe at a time, and it decides | `PeerCircuit` |
| Self-healing (`infra/self_healing.py`, `api/routers/self_status.py`) | last report, the pass of each caller | status, heal, loop | passes overlap at every await; the schema repair runs beside them | a repair or a health that is reported was real; a lost schema comes back | `SelfStatus` |
| CPU admission (`infra/cpu.py`) | gates, pending counters, process pool | run_cpu, run_cpu_process, cancellable runs, shutdown | cancelled waiters, worker deaths, full queue | counters match the jobs; every job ends | `CpuPool` |
| Breaker for asynchronous calls (`infra/circuit_breaker.py`) | state, counts, lock | call | a call ends in another state than it began in | closes on proof only | `AsyncBreaker` |
| Durable jobs (`upgrade/scheduler.py`, `outbox.py`, `persistence.py`, `state.py`, `checkpoint.py`) | lease, job row, checkpoints, outbox | run_once, transition, upsert, append, drain | leases outlived, senders that raise, cancelled drains, crashes | no version is overwritten unread; no event is sent again without need | `DurableJobs` |
| Guarded calls (`upgrade/idempotency.py`, `budget.py`, `cancellation.py`, `agent_runtime.py`, `provider.py`) | key records, ledger, circuits | begin, reserve, iterate, invoke, settle, commit | cancellation and overspending between reserve and settle | the ledger is exact and the limit holds | `GuardedCalls` |
| Access (`infra/auth.py`, `upgrade/rate_limit.py`) | keys, windows | resolve, charge, require role | window edges, rounding of Retry-After | no window admits more than its limit; who waits as told is served (FRIDAY's wait is rounded) | `AccessGate` |
| Memora feed (`integrations/memora_event_consumer.py`) | cursor, memories, inbox | poll, store, commit, acknowledge | redelivery, crash between store and acknowledge, malformed events | nothing acknowledged is lost; the feed drains | `MemoraFeed` |
| IntelX notices and market forecasts (`api/routers/webhooks.py`, `market.py`) | notices, background tasks, forecasts | receive, recalibrate, query, publish | deliveries race, repeat and contradict; crash before the background task | repeats are recognised; notices settle; what is advised is stored | `MarketAdvisory` |
| Research (`connectors/intelx_context.py`, `infra/research_context.py`) | calls in progress | context, list, durable notices | publication while asking, failing endpoints, synthetic baselines | genuine and not from the future | `ResearchEvidence` |
| Event emitter (`infra/events.py`) | webhooks, counters | emit, deliver, retry | concurrent retries, cancellation, hooks removed meanwhile | counters are exact | `WebhookDelivery` |
| Stream hub (`api/routers/streaming.py`) | bounded queues | register, broadcast, receive, leave | slow clients while the broadcaster is suspended | order kept, loss only at the bound | `StreamHub` |
| Quick forecasts (`api/app.py`, `infra/cache.py`) | LRU entries with deadlines | hit, miss, compute, set | misses together, failing commits | a cached answer is stored | `QuickForecasts` |
| Model registry (`storage/repositories.py`) | versions, active flag, runs | register, promote | two promotions at once | promotions that see each other's rows leave one active model | `ModelPromotion` |
| Model watch (`src/predict/`) | samples, scores | record, register, ensemble | thresholds, pairing of names | degradation is seen | `ModelWatch` |
| Universe matrix (`core/universe_forecasting.py`, `universe_domains.py`) | session of a request, deadline | matrix, predict, refresh | wait_for cancels in the middle of a statement | completed targets are kept | `UniverseRefresh` |
| Pipeline (`core/pipeline.py`, `engine.py`, `features/`, `evidence/`, `models/`) | one run | ingest, fit, select, assess | time budgets, lost workers, gaps | says what it did; looks at most one cell ahead | `SignalGrid`, `ForecastPipeline` |
| Scenarios (`scenarios/`, `api/routers/scenarios.py`) | scenario rows | propagate, compare, simulate, fan chart | order along a graph with cycles, failing in the middle | every consequence is followed; rows have their audit | `ScenarioGraph`, `ScenarioRuns` |
| Risk (`api/routers/risk.py`, `connectors/trading_bot.py`, `evaluation/risk_calibration.py`) | last payload, one audit | read book, audit pairs, publish | endpoints that answer nothing or half | the worst is reported; the tail is consistent | `TailRisk`, `RiskAudit` |
| Numerical engines, calibration statistics, agents, UI, scripts | none across calls | computations | floating-point series | not modelled | |

How they interact: a handler runs in the event loop and owns one session; every
`await` on the session lets other handlers and scheduler jobs run.  Handlers
call the pipeline (worker pool), peers (through a circuit each), and then the
repositories; the scheduler calls the same repositories through its own shared
session.  The store's row locks and its unique indexes are the only
synchronisation between them.  After a commit, events go to the emitter and the
hub; background tasks answer the webhook's notices; the self-healing loop looks
at all of it.

## Modules

| Module | Models | Extends | Instance |
|---|---|---|---|
| `ForecastStore` | the three tables, row locks, commit and rollback, the repository statements | | |
| `ForecastPromise` | the abstract lifecycle of a forecast: born, withdrawn, given one outcome | | |
| `ForecastLifecycle` | requests, scheduler, storage errors and restarts over the store | `ForecastStore` | `MCForecastLifecycle` |
| `ForecastSweep` | the committing lifecycle sweep beside requests | `ForecastLifecycle` | `MCForecastSweep` |
| `CpuPool` | admission, gates, counters, the process pool and isolated children | | `MCCpuPool` |
| `StreamHub`, `AccessGate`, `QuickForecasts`, `ForecastHistory`, `TelemetryIngest`, `AsyncBreaker`, `ModelPromotion`, `WebhookDelivery`, `GuardedCalls`, `SelfStatus` | the components that admit, answer and feed requests | | `MCServing` |
| `UniverseRefresh`, `TailRisk`, `RiskAudit`, `ResearchEvidence`, `SignalGrid`, `ForecastPipeline`, `ScenarioGraph`, `ScenarioRuns`, `ModelWatch` | the components that turn data into forecasts and assessments | `ForecastPipeline` extends `SignalGrid`, `ScenarioRuns` extends `ScenarioGraph` | `MCAnalysis` |
| `MemoraFeed`, `MarketAdvisory`, `DurableJobs`, `ServiceProcess`, `SelfStatus`, `PeerCircuit`, `FridayDelegation` | the components in which something must happen in the end | | `MCBackground` |
| `...Proofs`, `NumberLemmas` | theorems (see Proofs) | their modules | |

An instance of several components adds one variable, `focus`: a behaviour picks a
component at its start and runs it while the others rest, so that the states to
visit are the sum of theirs and not the product.  That is sound because they share
no variable, and none of their properties mentions another's.  A component that
rests is in a state in which none of its fair actions is enabled (`FeedRests`,
`StatusRests`, and the initial states of the others), so the fairness of each
restricts only the behaviours that run it.  `MCForecastLifecycle`,
`MCForecastSweep` and `MCCpuPool` run one component each.

### ForecastStore

`table[f]` is the committed record of forecast `f` (status, the session that
wrote its outcome row, the set of events with their writers), `work[f]` the
record as the session holding its row sees it, `holder[f]` that session.  This
is READ COMMITTED with row locks: `storage/db.py` sets no isolation level, so
the database default applies.  A read (`Sees`) shows a session's own writes and
otherwise what is committed; an UPDATE waits for the row (`RowFree`) and then
sees the latest committed version, which is what makes the condition in
`transition_status` effective; `record_outcome` flushes its UPDATE first and
then its INSERT, which the unique index on `outcomes.forecast_id` may refuse.
Values of a forecast that no status decision reads are left out.  Audit rows are
further INSERTs of the same session: they commit and roll back with it.

### ForecastLifecycle

`req[r]` is a request and its session: `phase` names the statement it awaits,
`kind` the route, `fc` the forecast, `answer` what the client was told.

| Action | Code |
|---|---|
| `Create` | `create_forecast`, `delegate_forecast`, `request_universe_prediction`: INSERT and `forecast_created` |
| `ReadForecast`, `ReadOutcome` | the checks of `invalidate_forecast`, `cancel_forecast`, `resolve_manual`, `resolve_forecast` with their 404 and 409 |
| `Transition` | `transition_status(allowed_from=live)`, its events, or 409 |
| `ResolveUpdate`, `ResolveFlush` | `record_outcome`: the unconditional UPDATE, then the flush that may meet the unique index (409 by `errors.py`) |
| `Respond`, `CommitRequest`, `Reply` | FRIDAY's handlers and `/predict` commit, then answer; the other handlers answer, then `get_db_session` commits in its teardown |
| `Fail` | any storage error: `safe_rollback` and 5xx, or nothing the client sees when it has its response already.  A commit that fails may have taken effect with its acknowledgement lost: then the rows are stored and the client is told 5xx |
| `Calibration*`, `Refresh`, `Backtest` | the jobs of `ForecastScheduler`, in the one session `lifespan` gives them; no job commits |
| `Restart` | the process ends and starts again: all sessions roll back |

The clock is no variable: a job that lists the forecasts past their horizon may
list any that are unresolved, since any may have passed it by then.

The order of response and teardown is the framework's, not this repository's:
the FastAPI the project locks (0.141.1, `src/REPO_ANALYSIS.md:463`) runs the exit
code of a dependency with `yield` after the response was sent.  `Respond` before
`CommitRequest` models that order.

### ForecastSweep

`run_lifecycle_sweep` lists the active forecasts once and then works through
them in a session of its own (`Sweeper`), withdrawing, resolving or expiring
each; the demo seeder commits at the end, `futuris sweep` does not
(`SweepCommits`).  The pass starts over forecasts that requests have committed
before (`Earlier`, the requests that wrote `Seeded`), since a sweep of an empty
store shows nothing.  A failed flush poisons the session, the `except` branch then
writes through it, and the pass ends in an exception (`SweepAbort`).

### PeerCircuit

One breaker of `infra/resilience.py`: `state`, `failures`, `probes`
(`_half_open_calls`), and `cooled` in place of the clock (`recovery_timeout` has
passed since `opened_at`).  The registry holds one such breaker per name and
they share nothing; note that `ecosystem/adapters.py` asks for "VyralX" and
`connectors/vyralx.py` for "vyralx", so that peer has two.

| Action | Code |
|---|---|
| `Admit` | `allow_request` returning True, in each state |
| `Succeed`, `Fail` | what the callers record: health checks, the two signals, `guarded_call` |
| `SucceedThenFail` | `connectors/vyralx.py`: success recorded, then a body that does not parse |
| `Cool` | the cooldown passes; the callers' timeouts (1.5 to 10 s) are shorter than it (30 s), so unless `Slow` the calls sent before have ended |
| `Heal`, `OperatorReset` | `SelfHealingSupervisor.heal`, `POST /self/peers/{peer}/reset` |

`trust` is a history variable: whether the peer has answered since the circuit
opened, or was only reset.

### CpuPool

A job is one run of a forecast: a coroutine that is admitted (`Submit`), waits for
its gate, starts its work elsewhere and awaits it.  `phase` is the coroutine,
`work` what it started; cancelling the one does not end the other, and the
module is about what the counters, permits and the pool do then.

| Action | Code |
|---|---|
| `Submit` | `cpu_saturated`, and the increment at the head of each `run_*` |
| `StartThread`, `StartChild`, `StartInPool` | the gate, then `to_thread`, `process.start`, `pool.submit` (which a broken pool refuses) |
| `Begin`, `Finish`, `FutureFails`, `FutureCancelled` | the executor's side, with `_process_job_finished` as the callback |
| `ChildDies`, `PoolBreaks` | a process dies |
| `Deliver`, `CancelQueued`, `CancelWaiting`, `CancelIsolated`, `Reap` | the coroutine goes on, by result or by `CancelledError` (`wait_for` in `universe_forecasting.py`) |
| `Shutdown` | `shutdown_cpu_process_pool` |

Executors are external and modelled by what `cpu.py` relies on: a pool marks one
call more than it has workers as running (`Prefetched`), fails the futures of a
broken pool one by one, and cancels those that have not begun at a shutdown.
The gates are derived: `async with` holds a permit from the start of the work to
the end of the coroutine.

### FridayDelegation

`ForecastLifecycle` takes a delegation for one creation; this module opens it.
A request is one attempt: it has a key, a payload and its own session, and a
retry is another request with the same two.  `stored` are the committed forecasts, each known by
the request that made it; `phase` is the statement a request awaits, with its
row inserted and not committed in "commit"; `verdict` and `told` are its answer.

| Action | Code |
|---|---|
| `Lookup` | `get_by_idempotency_key`, the payload comparison with its 409, and the refusals of stale or short telemetry, which store nothing |
| `Insert`, `InsertFails` | `ForecastRepository.create`: the unique index lets one row of a key in, and makes an INSERT wait while such a row is uncommitted (`KeyFree`) |
| `Poll`, `Raise` | after a failed INSERT, the reads for the winner: its replay when the payload matches, else the original error as `errors.py` answers it |
| `Commit`, `CommitUnknown`, `HandlerFails` | the commit, the commit whose acknowledgement is lost, and any failure without effect |
| `Reply` | the answer after the commit |
| `Crash` | the process ends and starts again |

The commit stands in a loop of ten attempts.  After one has raised, the session
is waiting for a rollback that nobody does and the next attempt raises too, so
the loop never turns a failure into a success and is one step here.  The twenty
reads for the winner are one step for the same reason: between them nothing of
the request changes, and each may find the winner or fail.  A matching retry whose
reads all fail is told 409, the answer of a misused key; `ConflictMeansTaken` says what
is left of the meaning of that answer.

### StreamHub

`HandleDomainEvent` puts an event before the hub, `Broadcast` enqueues it for
every client whose filter matches and drops the oldest event of a full queue
(`Enqueue`); clients `Register`, start their generator, `Receive`, change their
filter and `Leave`.  `due` is a history variable: what a client's filter matched.

### AccessGate

A request has its key resolved (`GetCurrentUser`, `VerifyFridayAuth`), is charged
to the bucket of its address or its key (`Charge`, with `Consume` of the sliding
window), and its role compared with the route's (`RequireRole`).  Which keys the
settings hold, and whether FRIDAY's is long enough, differs between deployments and is
chosen at the start.  A tick is a fraction of a second: the anonymous limit rounds its
Retry-After up to whole seconds, and FRIDAY is told the time in a text with one decimal
(`friday.py:114`), which may be the earlier of two (`RetryAfter`).  So
`RetryAfterIsEnough` asks of FRIDAY to wait for half of the last digit more than they were
told (`HasWaited`); who comes back at the printed instant may be refused again.  Keys
are revoked between requests.

### QuickForecasts

`Hit`, `Miss`, `CommitForecast`, `ListRecent`, `SetEntry`: requests of one key that
miss together all compute; each commits and then caches.  The clock ticks at every
use of the cache, and `used` is the history of those uses, from which
`RecentKeysStay` says what a least-recently-used cache must still hold.

### ForecastHistory

The log as `point_in_time_query` reads it.  `StampUpdate` takes the time of an
event before its UPDATE waits for the row (`WriteUpdate`), `RecordOutcome` after;
`CommitTx` makes both visible.  The columns are Oracle `DATE`s (`models.py:27-28`,
`220-222`), which keep whole seconds: `SecondOf` says in which second each stamp falls, and
events of one second tie.  No query breaks ties, so `Replay` is the *set* of the
answers the query may give: the statuses that a newest event known by then leaves, for
the forecasts created by then, of which there is a limit over all targets.
`OpenListing` and `ReadPage` page through the present in any order that sorts by `as_of`,
which clients supply and which may tie as well.

### TelemetryIngest

The scheduler's list of subscriptions.  `StartJob` and `Discovered` are the two ends of the
await in `sync_dynamic_trading_subscriptions`; `TakeNext` and `Serve` are the loops of the
refresh and the backtest job, which await a forecast for each element of the list while
the other jobs append to it.  Connectors (`NexusRows`, `VyralxRows`, `SyntheticRows`) differ in
what they do with malformed rows and failures; a job that meets one ends its pass
(`PassBreaks`), and a failed flush leaves the shared session refusing (`FlushFails`).

`app.py` builds the scheduler without an observation and an evaluation repository, so
`ingest_job` stores nothing of what it fetches (`IngestFetched`) and no backtest is saved;
What is stored of a day of telemetry is therefore no subject here.

### AsyncBreaker, ModelPromotion, WebhookDelivery, GuardedCalls

`AsyncBreaker` runs each look at the state under the lock and the call without
it; only the fallback of a short-circuited call holds the lock.  `proven` is the
history of successes since the breaker half-opened.

`ModelPromotion` separates the candidate's checks (any scores at all, a latest run that is
not stale), the comparison by `mae` and `ece` with the active models that were read, the
demoting UPDATE and the commit.  The UPDATE covers the rows that are committed when it
begins (`BeginDemotion`), waits for those another session holds (`RowsFree`) and
demotes the ones that are active when it has them (`Demote`); the commit changes those and the
candidate, and nothing else.  A version registered and promoted in one transaction while
another UPDATE is under way is not covered by that one and stays active beside its
candidate: `unseen` keeps such versions, and `OneActiveModel` excepts them.  In
`src/futuris` nothing calls `promote`; its callers are external.

`WebhookDelivery` takes an action for the code between two awaits of `_deliver`, with hooks
added and dropped and the awaiting task cancelled meanwhile.  `GuardedCalls` puts the guards
of `futuris/upgrade` in the order their interfaces suggest; the client itself is
external.  A router that has tried every provider returns its last failure, and a
`ProviderResult` that failed is not None: the loop that gets it ends SUCCEEDED
(`HandFailureOver`).

### SelfStatus

`pass[c]` is how far the pass of a poller, an operator or the loop has come and what
it has found; the timeouts of `run_timed` are counted in ticks (`left`).
`HealLists` and `HealCreates` are the two statements of `create_all`, beside
`ScheduleSchemaRepair` and `EnsureSchema` of a request that met a missing table.
The database may refuse, hang, or lose its tables (`Fault`).  `seen[c]` is the history of what
was so at some moment since `c` asked; a cached report keeps that of the pass that made it,
and `answer` sets what a caller was told beside it.

### UniverseRefresh

A request reads the stored rows, picks the targets that have none (a predict
request: its own), and computes, drafts or skips each in a session of its own;
`TimerCancels` is `wait_for` striking at any of these awaits, `_recover_session`
the rollback after it.  A forecast without data is stored with prediction 0.0,
whose risk depends on whether low values of the target are good.

### TailRisk, RiskAudit

`TailRisk` reads pairs and positions from several endpoints, each of which may
answer, answer nothing or break off; generated positions replace a book that
cannot be read, and `PublishRisk` keeps what the pulse computed.  `RiskAudit`
computes the metrics of one series in integers: the interpolated percentile in
hundredths (`VarHundredths`), the mean beyond it and the breaches, over all
samples up to the bound.

### ResearchEvidence

A caller asks the context endpoint, then the list, then the durable notices.  Each
may be down, refuse or answer nonsense; items are published at any time and may
carry a date.  A synthetic baseline is what IntelX sends when it has none.

### SignalGrid, ForecastPipeline

A series is the set of grid cells that were observed, and a cell of the table is
the observation it was computed from: that is all the properties tell apart.  Gaps are
filled forward up to a limit and then one cell backward (`bfill(limit=1)`), so that the last
cell of a long gap is the observation after it: the one look ahead there is, which
`FeaturesLookOneAhead` allows and nothing beyond it.
`ForecastPipeline` goes from the data quality checks through the route of
candidates, each of which is fitted, fails, is skipped under pressure or for lack
of time, to the selection, the fallback, the confidence and the advice.

### ScenarioGraph, ScenarioRuns

The graph operators are the code's: `TopologicalSort` is Kahn's algorithm in node
order with the nodes of cycles appended, `Deltas` carries relative changes along
it.  `ScenarioRuns` runs specifications one after the other in the session of a
request, whose rows and audit commit together; `POST /simulate` and FRIDAY's
evaluation and the fan chart of a forecast are requests of the same kind.

### ModelWatch

Two services that nothing awaits: `RecordPrediction` compares a model's latest
errors with its older ones, `CreateEnsemble` and `SelectModels` weigh models by
their scores (`Paired` is the `zip` of names and scores).

### MemoraFeed

`PollFeed`, `LookAtEvent`, `Remember`, `CommitNotice`, `Acknowledge`; `GiveUp` is any
failing call, malformed event or end of the process; `AcknowledgeUnknown` an
acknowledgement whose answer is lost.

### MarketAdvisory

A delivery stores a notice in Memora and in the database (`RememberRun`,
`LookForNotice`, `InsertNotice`) and is answered; a new notice of a supported run
starts a background task that makes a forecast as a query does (`Gather`,
`WriteForecast`, `PublishForecast`, `Notify`, then the teardown) and reports the
notice's end.  `broken` is the history of runs whose processing a crash or a
failed write cut off.

### DurableJobs

Calls of `run_once` under a lease that may expire while they run; `Transition` moves
the in-memory state, `UpsertJob`, `SaveCheckpoint` and `Publish` write the row, its
checkpoint and its event, each in a transaction of its own.  `BeginDrain` reads the oldest
pending rows up to a limit; `SendEvent` is a sender that accepts or raises, after which the
row waits for a later drain; `Mark` may fail and the drain may be cancelled at the await of the
sender (`CutDrain`).  `author` is the history of who wrote a version, `sent` how often an
event was accepted, `unmarked` how often without being marked then.

Nothing in `src/` calls `run_once` or `drain`, so no fairness is assumed and nothing is
claimed to happen in the end.  Nor is it promised that what a job did is ever told: an
interrupt or a crash between the row and its event (`persistence.py:90`) leaves a row whose
event is never written, since the retry reads the row and goes on from its version.

### ServiceProcess

`lifespan` is where the process is in its life, `opened` the resources it holds.  Jobs of the
scheduler and the demo seed fit models in the worker pool (`fits`), write through the
shared session and emit through the emitter's client (`JobStores`, "emitting"), and start
broadcasts to the peers, tasks with HTTP clients of their own (`signals`,
`_in_flight_tasks`).  No job commits, so only the seed adds forecasts.  Stopping is the code's
order: `StopScheduler` cuts the jobs, `CloseSession` follows the broadcasts, `CancelTasks` and
`AllGathered` the background tasks; `ClosePool` shuts the pool down and waits, without a
timeout, for every fit that is still running; then `CloseClient` and `DisposeEngine`.

All four resources open again for whoever uses them, so what can go wrong is that somebody whom
the shutdown has not ended does so after the close, and nobody closes them again.
`ClosedStaysClosed` rules that out for broadcasts, tasks, fits and jobs.  A job that was cut may
still be unwinding when session, client and database are closed, since APScheduler waits
for none of them; it is left out of the claim, as it runs nothing but its `finally` clauses.
Requests are not modelled: the server has ended them before the shutdown begins.  Fits
of jobs stand for the pool's path (`run_cpu_process`), not for the isolated children of
`CpuPool`.

## Runs

| Run | Instance | Shows |
|---|---|---|
| `lifecycle_safety` | 3 requests, 2 forecasts, scheduler on | the safety properties of the lifecycle and the refinement of `ForecastPromise` (0.9 million states) |
| `lifecycle_withdrawn` | 2 forecasts, 3 requests | *violation*: a resolution overtakes a withdrawal |
| `lifecycle_sweep_lost` | 1 forecast, fair | *violation*: what the calibration job resolves is never committed |
| `sweep` | 2 requests, 2 forecasts, a committing sweep, fair | the sweep is all or nothing, keeps outcomes, ends, and blocks no request for ever |
| `cpu` | 3 jobs, 3 slots, 1 worker, 3 pools, fair | counters, gates and the pool are exact, and a fit ends (0.4 million states) |
| `cpu_broken_pool` | the same | *violation*: a pool that breaks with nobody awaiting it refuses every later fit |
| `serving` | the ten components of `MCServing`, one at a time | eleven properties (1.0 million states) |
| `analysis` | the components of `MCAnalysis`, one at a time | seven properties (1.4 million states) |
| `research_future` | `ResearchEvidence` | *violation*: a forecast as of a past day is told of later research |
| `posture_placeholder` | `UniverseRefresh` | *violation*: a placeholder 0.0 raises the posture |
| `background` | the components of `MCBackground`, one at a time, fair | twelve properties, six of them liveness (87 thousand states) |
| `advised_lost` | `MarketAdvisory` | *violation*: an advised forecast is rolled back |

Bounds.  Three requests are one creation and two contenders for its forecast,
beside the scheduler as a fourth session; each request runs once, because a
client's retry is a new request with a new session.  Two forecasts let one
failure of the shared session take another forecast's writes with it.  Requests
are finite, so every behaviour may stop: deadlock is not checked
(`CHECK_DEADLOCK FALSE`), and `NobodyBlocks` and the liveness properties say
instead that nobody waits for ever.

* Circuit: an old call, a probe and one that must be refused; the failure streak is
  counted up to the threshold, above which it changes nothing.
* CPU: three slots and one worker give a fit that runs, one that queues and one that
  is degraded; three jobs construct three pools at most.
* Delegation: a winner, its retry and a misuse of its key; keys and payloads are
  chosen at the start in every way.
* Streams: a queue of two and four events overflow it twice while the broadcaster is
  suspended.  Rate limits: two per window of three ticks for six ticks slide one
  window over another.  Cache: three keys over two places, with expiry.
* History: four stamps, two to a second, over three forecasts of two targets, two of
  which share an `as_of`, and two sessions give a stamp that is overtaken, a tie, a refusal
  and a rollback; a creation limit of two and pages of
  one are reached.
* Ingest: three pairs, one subscribed from the start, and three jobs: each pair can arrive before,
  under and behind a pass.
* Promotions: three over three versions, one of them without `ece` and one without scores.  Webhooks: two hooks,
  two events, one retry.  Guarded calls: two clients, and a budget that two estimates overrun.
* Universe: two clients over two targets, one of each kind of risk.  Risk: two pairs,
  two endpoints, one change of the book.  Audit: every series of up to five prices out of three.
* Grid: every pattern of observations on six cells, which holds gaps below, at and above the
  fill limit.  Scenarios: every graph of up to three edges on three nodes, cycles included.
* Feed: five events with a malformed one in the fourth place and a batch of two.
  Advisory: two deliveries of one run that agree or not, beside another run; or a query.
* Jobs: two overlapping calls, a drain limit of two, one crash or failed mark.
  Process: two jobs, three runs and a start after a death.  Self-status: one fault; `serving`
  asks what reports tell, and adds a poller that is answered from the cache.

Symmetry is used where nothing but safety is asked: requests and forecasts of
`lifecycle_safety`, clients of the matrix in `analysis`.  `AnyJobEnds` and
`AnyDelegationAnswered` state a liveness property of one representative (`j1`, `r1`)
instead: jobs and requests differ by nothing but their parameters, and the other
ones still take every value.

Fairness.  `Fairness` gives weak fairness to each request's statements (the
event loop runs every coroutine that is ready, the database grants a free row)
and to the calibration job (APScheduler fires interval jobs), and none to
clients, errors or crashes.  The sweep's work is weakly fair in the
same way.  A call to a peer ends because every caller sets a timeout
(`CircuitFairness`); a delegation goes on because the event loop runs it and its
transactions end; a fit ends because it is finite, and the event loop and the
executors run what is ready (`CpuFairness`).  `FeedFairness` is strong for the calls
of the consumer, since the worker repeats a failed pass for ever and a call that is
repeated for ever is taken to succeed at last.  `ProcessFairness`
resumes the awaits of the shutdown, lets broadcasts end, which their timeouts bound, and takes
it that a fit ends, which nothing in the code bounds; `StatusFairness` lets the loop run and
timers fire, and `AdvisoryFairness` lets handlers and background tasks go on.

## Properties

* `Consistency`, `ResolvedIffOutcome`: in the committed tables a forecast is resolved
  exactly when it has an outcome row (and what makes that inductive).
* `SuccessIsDurable`: a success answered after its commit is in the tables, and
  a resolution told "ok" is the one whose outcome the forecast keeps.
* `RequestsAreAtomic`: whatever a request was told, it has left everything of its kind,
  events and outcome, or nothing; 404 and 409 leave nothing, 5xx either of the two.
* `ConflictIsFinal`: 409 is told only about a forecast that can no longer be
  transitioned, so a retry is pointless.
* `KeepsPromise`: the store implements `ForecastPromise`.
* `SweepIsHarmless` (no committed outcome is replaced, a pass is all or nothing),
  `NobodyBlocks` (the sweep ends and so do the requests it makes wait).
* `ProbesAreSound`, `ProbeDecides`: a half-open circuit refuses everybody but its
  probe, so it must never lose it, must send one at a time, and the probe decides.
* `CpuIsExact`, `AnyJobEnds`: the counters behind the degradation decision are
  exact, children stay within the gate and die before their lease is released, late
  news of a broken pool does not discard its successor; no fit waits for ever.
* `RetriesAreSafe`, `AnyDelegationAnswered`: a retry storm makes one forecast, whoever
  is told a forecast is told that one for the payload asked, 409 is about keys that are
  taken for good, and nobody waits for another attempt for ever.
* `StreamsInOrder`, `LimiterIsExact`, `CacheIsSound`, `LogTellsTheStatus`,
  `PastIsStable`, `PassesServeEachOnce`, `OneActiveModel`, `DeliveryStatsExact`, `BudgetHolds`,
  `RepairsAreReal`, `ClosesOnlyWhenProven`, `RefreshIsSound`, `RiskIsHonest`,
  `TailIsConsistent`, `EvidenceIsSound`, `PipelineIsHonest`, `ScenariosAreSound`,
  `WatchIsSound`, `AckedIsDurable`, `FeedDrains`, `RepeatsAreRecognised`, `NoticesSettle`,
  `JobsAreDurable`, `SchemaIsRepaired`, `ClosedStaysClosed`, `StopsCompletely`: stated above
  their definitions, each with the code or the sentence of a document it is about.
* `WithdrawnStaysWithdrawn`, `SweepResolutionLasts`, `FreshPoolAfterCrash`,
  `NoFutureEvidence`, `NoDataNoAlarm`, `AdvisedArePersisted`: promises of comments and
  documents that the code does not keep; each has its violation run.

Some hold only under a proviso that the property states, and the proviso is where the
code is weaker than it looks: the log and the row agree unless two sessions wrote the
forecast at the same time, and the replay is one answer of several when changes fell into one
second (`LogTellsTheStatus`); the listing skips no row unless rows
left it between two pages or share their `as_of` (`PastIsStable`); one model is active unless
one was registered and promoted under another's UPDATE (`OneActiveModel`); FRIDAY's printed
wait may be a half of its last digit short (`LimiterIsExact`); a cell is computed from the
past but for the backfilled one (`PipelineIsHonest`); a degradation is seen if errors are 1.0 or
more, because `max(1, older_error)` hides those of probabilities (`WatchIsSound`); weights
belong to their models if no unregistered name stands before a registered one
(`WatchIsSound`); a client told 5xx does not know whether
its request took effect (`RequestsAreAtomic`); a notice settles unless a crash cut it off,
which nothing repeats (`NoticesSettle`); calls of a circuit end before its
cooldown does (`~Slow`).  With a call that outlasts it, the code lets a second probe out: the old
call's failure opens the circuit under the first probe, and after the next cooldown another is
admitted (`background.cfg` with `Slow = TRUE` shows it in thirteen states).

## Disagreements without a run of their own

Met while modelling and kept here, since a run for each would say no more:

* The response of a handler that does not commit itself leaves before the teardown's
  commit, which may fail (`api/deps.py:69`).
* `futuris sweep` prints its report and closes the session without a commit (`cli.py:138`).
* The sweep's UPDATE has no condition, so it puts `expired` over a forecast that was resolved
  since it was listed (`core/lifecycle.py:175`): beside a sweep, `ResolvedIffOutcome` fails.
* A reset of a circuit lets several trial calls out at once (`api/routers/self_status.py`).
* `POST /simulate` reads fields that `ScenarioResult` does not have (`api/app.py:714`).
* Prices that rise are audited as losses (`evaluation/risk_calibration.py:76`).
* FRIDAY's override of a scenario is a value where the graph expects a multiplier
  (`api/routers/friday.py:804`), and a negative override counts as none (`scenarios/graph.py:86`).
* A fallback that calls its own breaker waits for its lock for ever
  (`infra/circuit_breaker.py`, a short-circuited call awaits its fallback with the lock held).
* A feature is to be computed "ONLY using <= T" (`context/contextualize.py:29`, `core/engine.py:80`), but
  `bfill(limit=1)` gives the last cell of a long gap the observation of T + 1
  (`features/normalize.py:349`).
* The shutdown cancels running jobs although it says it drains them (`infra/scheduler.py:533`).

## Proofs

Every safety invariant and every action property that a run checks, and the refinement, is
a theorem for every value of the constants, from the named assumptions of the modules.
A theorem `X == Spec => []P` goes the same way everywhere: an inductive invariant `Inv`
that says what `P` leaves out, `Init => Inv`, one lemma per action (or per kind of
step), `Inv => P`.  The components share no state, so the theorems of several stand in
one module.

| Module | Theorems about | Extends |
|---|---|---|
| `NumberLemmas` | numbers: least members, induction up to a bound, sums | |
| `ForecastLifecycleProofs`, `ForecastFailureProofs` | rows, requests, the scheduler and the sweep | `ForecastLifecycle`; the first, `ForecastSweep` |
| `CpuPoolProofs` | admission and pools | `CpuPool` |
| `RequestProofs` | `AccessGate`, `QuickForecasts`, `StreamHub` | these |
| `ServingProofs` | `AsyncBreaker`, `ModelPromotion`, `WebhookDelivery`, `SelfStatus`, `GuardedCalls`, `ForecastHistory`, `TelemetryIngest` | these |
| `AnalysisProofs` | `ForecastPipeline`, `UniverseRefresh`, `TailRisk`, `RiskAudit`, `ResearchEvidence`, `ModelWatch`, `ScenarioRuns` | these |
| `BackgroundProofs` | `PeerCircuit`, `FridayDelegation`, `MemoraFeed`, `MarketAdvisory`, `ServiceProcess`, `DurableJobs` | these |

Induction.  The library's rules of induction take the predicate as a parameter, which
the installed provers cannot instantiate.  `NumberLemmas` derives from the
well-foundedness of the naturals two rules about *sets*: a set of naturals that is not
empty has a least member (`LeastOf`), and a set that holds 0 and, with k - 1, k holds
all of 0 .. n (`UpTo`).  A proof by induction defines the set of the k for which its
claim holds.  Sums, listings and other recursive functions of the models are
reasoned about in this way: a function that satisfies the equation exists (`UpTo`), so the
`CHOOSE` that the definition stands for satisfies it.  This is why the models
define sums and sortings by recursive functions and not by the folds of the community
modules: what a fold with a `LAMBDA` computes is out of the provers' reach.

### The lifecycle of a forecast

From `StoreAssumption` and `LifecycleAssumption` (the names are distinct; the scheduler
is no request), for any number of forecasts, requests and sessions:

* `TypeCorrect`, `StaysConsistent`: `Spec => []Consistency`;
* `ResolvedExactly`, `SuccessDurable`: consequences of it;
* `OutcomesImmutable`: the action property, from it;
* `StoreKeepsPromise`: `Spec => KeepsPromise`, every commit being one birth,
  withdrawal or outcome and every other step a stutter.

`ResolvedIffOutcome` is not inductive: nothing in it says what a commit is about
to publish.  `Consistency` adds, per row, that an unheld row shows what is
committed and a held one drops no committed outcome or event (`RowInv`), and,
per request, that it holds exactly the row it wrote (`Holds`), that what a
resolution read is still true of its forecast (`ResolutionInv`: a forecast that
existed and was not born unanswerable stays so), and the shape of what the next
flush or commit will write (`FlushInv`, `CommitInv`).  The scheduler needs no
such part: it never commits, which is why its writes cannot break the tables and
also why they are lost.  One lemma each for `Write`, `Commit` and `Rollback`
carries the rows; one step per action carries the requests.

`ForecastFailureProofs` is about what is left when something is refused or fails.
`StoreSteps` sorts the steps of the lifecycle by what they do to the rows: nothing,
one session writes the row it may write, rolls back, or commits.  `RefusalInv` adds to
`Consistency` that of a request either nothing is anywhere, or all of it is in the row it
holds and nothing elsewhere, or all of it is in the table (`TraceInv`, with `Nothing`,
`Pending` and `Everything`), that the forecast of a conflict has left the live
statuses and that of a waiting transition exists (`ConflictInv`), which
`StatusForward` keeps: `RequestsAtomic` and `ConflictsFinal` follow.  For the sweep
`Consistency` does not hold, since its UPDATE has no condition; what does is `Sound`, that
an unheld row shows what is committed.  `SweepInv` adds that rows in work keep
committed outcomes, that a pass holds and has marked each row it is done with, and
that either nobody else sees a mark yet or the pass has finished and all it listed is
marked.  `SweepHarmless` follows, from `SweepAssumption` besides the two above.

### Pools, circuits and delegations

`CpuPoolProofs` proves `CountersExact`, `CpuTypeCorrect`, `ChildrenReaped`,
`OnlyBrokenDiscarded` and their conjunction `CpuCountsExact`, from `CpuAssumption`.  A
step changes one job, so each pending set grows or shrinks by that job at most
(`Counted`), and the counters follow (`CountersFollow`); the invariant adds which work a
coroutine in each phase has (`JobInv`), that broken work is in a broken pool
(`HomeInv`), and that the process gate is within its permits (`GateInv`).

`BackgroundProofs` proves `CircuitTypeCorrect`, `HalfOpenNeverAbandoned`,
`ProbesGoAlone` and their conjunction `ProbesSound`, from `CircuitAssumption`.
`CircuitInv` adds that a half-open circuit has its slot taken, that a trusted-again or
reset circuit only is closed, and, when calls end before the cooldown does (`~Slow`, a
hypothesis of `ProbesGoAlone`), that a cooled circuit has no old call in flight.

It proves `OneForecast`, `RepliesSound`, `ConflictsSound` and their conjunction
`RetriesSafe`, from `DelegationAssumption`.  `OneForecastPerKey` is not inductive, since
it says nothing of rows that are about to be committed: `DelegationInv` adds that such a
row is the only one of its key (`OneOpenRow`) and that none of its key is stored
(`RequestSound`), which `KeyFree` and the index establish together and every commit
uses.

### Events, notices, jobs and the shutdown

`BackgroundProofs` goes on with
* `AckedDurable`: `FeedInv` follows one event through Memora and the inbox to its
  acknowledgement, in that order;
* `RepeatsRecognised`: `AdvisoryInv` adds that only one delivery at a time is about to start
  a run's processing and that nobody started it before (`MarkInv`);
* `ClosedHolds`: `ProcessInv` says of each stage of the shutdown who has ended by then
  (`StageInv`), what is closed (`ShutInv`), and that nothing runs in a process that has not
  started its workers (`AsleepInv`);
* `JobsDurable`, from `JobsAssumption`: the versions up to the row's are written, each by a call of its own
  (`RowsOf`); no call has read a version that is not there, so a version is written by
  who read its predecessor (`CallsOf`); what the drain has marked or is about to
  mark has been sent,
  and as often as it was left unmarked and once more at most (`SentOnes`), the rows of
  a drain being pending rows of different events (`RowsDiffer`).

### Requests that are admitted, answered and streamed

`RequestProofs` proves
* `LimiterHolds`: `AccessInv` relates each bucket to its latest admissions (`Tracks`): the
  bucket is their end and those it has dropped lie outside the window, so that a bucket
  with room lets Limit + 1 admissions in a row span a window; and a refusal names a time
  at which, given half of its last digit more and with nobody else admitted, the oldest of them has
  gone (`RoomPromised`), for every set of keys the settings may hold;
* `CacheHolds`: entries and answers tell only what is stored (`EntriesTold`, `AskTold`), and the
  cache is a list in the order of last use, so what it dropped was used least recently
  (`UsesHold`);
* `HubKeepsOrder`: a client's queue and what it has read lie one after the other in the
  order of emission, and for each event it misses its queue has been filled with as many
  newer ones as it holds (`KeepsOrder`, by counting over the events that were due).

### What serves and feeds them

`ServingProofs` proves
* `ClosesProven`, from `ThresholdsArePositive`: a half-open breaker counts no success
  from before it half-opened (`TrialsInv`);
* `ActiveModel`, from `PromotionAssumption`: an UPDATE under way covers its candidate and every
  active model it did not miss, and once it has its rows it has demoted the active ones among
  them (`CallInv`); sessions past their waits hold no row together (`ApartFrom`);
* `DeliveryStats`, from `DeliveryAssumption`: the counters are cardinalities of sets of
  deliveries, so a step that settles, emits or moves deliveries changes them by the size
  of what it moves (`SettlingIsCounted`, `EmittingIsCounted`, `PendingIsCounted`);
* `RepairsReal`, from `BudgetsArePositive` and `RepairIsNoCaller`: what a pass has found, listed or
  created it has seen to be so (`PassSound`), and so has the report it leaves (`HealthInv`),
  whatever happens to the tables after;
* `BudgetKept`, from `GuardAssumption` (finitely many clients): `GuardInv` states sums as
  cardinalities, of the units the clients hold and have used, since a step moves the units of
  one client.  That no call costs more than its estimate stays a proviso of the property:
  the code charges what a call has cost;
* `LogAgreesWithTheRow`, from `HistoryAssumption` (later stamps fall in no earlier second): a
  forecast whose writers never overlapped has one writer at a time (`OneByOne`), and the row's
  status is among those its newest events tell (`LogInv`), however stamps tie;
* `PastStaysFixed` and `PastHolds`: what is written later is stamped after a settled second; and, for
  a client that reads pages, every row it found at the start whose `as_of` is its own is one it
  has seen or lies at its offset or behind it (`PageInv`), since new rows move positions only
  backwards;
* `PassesServe`, from `IngestAssumption`: what a pass has behind it is the list before its position,
  and nothing but the end of the list ever changes (`IngestInv`, `NewOnesAppended`).

### What the system computes, and says of it

`AnalysisProofs` proves
* `PipelineHolds`, from `GridAssumption` and `PipelineAssumption`: for every grid, what features are
  computed from, the one backfilled cell included, and how gaps are counted;
  `PipelineInv` adds that what has been tried is the route without the queue
  (`TriedOf`) and that the best is the best of what was tried (`BestOf`), which makes the
  named model the best of all that could be scored;
* `RefreshHolds`, from `RefreshAssumption`: `ClientInv` says, per client, which rows it has made
  (`Kept`, `Counted`), that it makes them once (`Ordered`), that its audit entry counts them
  but one under way (`EntriesOf`), through cancellations and restarts;
* `RiskReported`: a computation has said the worst of what it has seen, and simulates only at the
  end of the endpoints (`Honest`);
* `EvidenceHolds`, from `CallersDiffer` and `LookbackIsPositive`: what a caller holds was out when
  it was told of it (`GenuineCall`), and a peer that was down ends the query (`AskedOnce`);
* `WatchHolds`, from `WatchAssumption`: an alert follows from the errors recorded when it
  was raised (`AlertsOf`), so that errors which did not grow raise none and clear growth of
  large ones does; the shares of an ensemble are those of the scores (`SharesHold`), sums by
  induction over the list;
* `TailHolds`, from `LevelsArePercentages` and `SamplesAreNumbers`: the ranks of a sample are a
  permutation (`EveryRank`, by counting), so the sorted sample ascends and the interpolated
  Value at Risk lies between two observations; the shortfall is a mean of losses that reach
  it (`SharesSumUp`), and no larger share of the sample lies beyond it than the level leaves
  (`FewLieAbove`), for every series of prices and not only those of the run;
* `ScenariosHold`, from `NodesAreListedOnce` and `ScenarioAssumption` (a graph has finitely many
  edges): `SortIsTopological` proves Kahn's algorithm correct, the queue holding the free nodes
  it has not visited at each visit (`Kahn`); from it, `DeltasAreWalked` that one pass in that
  order computes what walking all the edges does, for every graph without cycles;
  `MirroredSums` that the shocks of antithetic paths sum up to zero; and `ScenarioInv` that the
  session of a request has a row for every result, so that its commit stores them all with
  their audit.

### What is only model-checked

Everything temporal under fairness, which TLAPS does not reach: `NobodyBlocks`,
`AnyJobEnds`, `ProbeDecides`, `AnyDelegationAnswered`, `FeedDrains`, `NoticesSettle`,
`SchemaIsRepaired`, `StopsCompletely`.  The
properties that the code violates have a run with a counterexample and no
theorem.

## Not modelled

Numerical engines and statistics (real-valued, sequential), the user interface and the load
scripts (clients: what they may send is among the inputs), parsing and formats of connectors,
tool policies and the context firewall (filters of one call), issuing of keys, and two jobs using
the shared session at once, which SQLAlchemy forbids and whose effect depends on the driver.
Within modelled components: values that no guard and no property tells apart, such as the
numbers a fit returns, quotes, and texts.  The notes in `PROJECT.json` say it per component.

## Plan

1. An abstract queue for `StreamHub` and an abstract ledger for `GuardedCalls`, with their refinements.
2. The composition of `CpuPool` with `ForecastPipeline`: a lost lease is a choice there and a result here.
3. The calibration statistics as integer operators against reference definitions, as `RiskAudit` does.
