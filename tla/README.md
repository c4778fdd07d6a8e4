# CryptoAgent 3.0 in TLA+

A verification project for the trading process in `src/src/btc_decision_agent`, for the
scripts and units that run it, for the studies its rules were chosen by and for the
retired service it replaced: TLA+ modules translated from the source, TLC runs over
small instances of them, and proofs that TLAPS checks for every value of the constants.

One process trades BTC/USDT on the Binance demo account. A decision engine (a large
language model with a numeric policy behind it) says how much of the equity to hold; an
order authority turns that into market orders and keeps a stop on the exchange's book
for whatever is held; SQLite and JSON files carry what must survive a restart; systemd
starts the process again whenever it ends, and ending the process is how the code
reacts to nearly every surprise. What is hard about it is not any single function. It is
that the book changes between any two calls (a stop fires, a request arrives late), that
the process can end between any two calls, that a slow model answers a question asked
about an older book, and that files, clocks and streams tell of the past what a crash or
an outage left of it.

## 1. Inventory

`PROJECT.json` has the same list with sources, modules and status. A part is *partly*
modelled where the last column of section 7 says what is left out.

**The trading process.**

| component | source | state | operations | modules |
|---|---|---|---|---|
| order authority `RealtimeDemoRunner` | `application/realtime_demo.py` 1145-1870 | position last read, pending protective fill, cadence stamps | `bootstrap`, `process_event`, `_reconcile`, `_sync_protection`, `_cancel_protection`, `_resolve_unfinished_intents` | RealtimeRunner |
| protective engine `ProtectiveDecisionEngine` | same file, 789-1120 | entry, high, quantity, plan, id of the resting stop, day, peak, cooldown | `restore_position`, `on_fill`, `set_execution_plan`, `_active_stop`, `update_equity`, `breaker_reason`, `recover_engine_state` | RealtimeRunner, ManagedPosition, RiskBreakers, EngineRecovery |
| checkpoint `EngineStateStore` | same file, 632-786 | one JSON file | `load`, `save` | CheckpointStore |
| intent ledger `ExecutionIntentStore` | `application/execution_intents.py` | SQLite rows: client id, status, age | `prepare`, `mark`, `unresolved` | RealtimeRunner, OrderSubmission |
| exchange adapter | `adapters/binance_execution.py` | clock offset | signed requests with retries, lookup by client id, orders, cancel, closed klines | OrderSubmission, SignedRequest, DailyHistory |
| LLM engine `LLMAgentEngine` | `application/llm_agent.py` | last verdict and its time, worker thread, two answer slots, back-off | `evaluate`, `_collect_deliberation`, `_spawn_deliberation`, `_fallback_decision` | LlmDeliberation, Dashboard, AgentView |
| regime playbook | `application/regime_playbook.py` | regime, since, pending label and its age | tracker, `resolve_plan`, `resolve_target_allocation`, `plan_adjustment` | RegimeTracker, ExecutionPlan, ManagedPosition |
| agent memory | `application/llm_memory.py` | table of decisions and outcomes | `record`, `resolve_pending`, patterns, migration | AgentMemory |
| numeric runtime | `application/exposure_runtime.py`, promotion script | policy file, experience file, pending steps, commit cadence | `evaluate`, `_resolve`, save, promote | OnlineLearning |
| policy, features, training | `exposure_agent.py`, `exposure_features.py`, `exposure_training.py` | weights, walk of a window | forward, update, save, load, rollout | Rollout |
| agent tools, history index | `llm_tools.py`, `research/build_history_index.py` | rows of past days | analogues with a cutoff, block | AgentView |
| market stream | `adapters/binance_stream.py` | connection, pause | connect, yield, reconnect, stop | StreamLink |
| market observer | `realtime_demo.py` 267-550 | points, bar and trade ids, ages, daily closes | ingest, quality, refresh | MarketObserver, TradeFlow, DailyHistory |
| backfill | `adapters/backfill.py` | pages, two files | download, save, load | KlineDataset |

**Who trades, and who reports.**

| component | source | state | modules |
|---|---|---|---|
| handover of authority | `deploy/handover-to-llm-agent.sh`, both units, `process_guard.py`, entry scripts | lock, enabled and loaded units, state files | Handover |
| activity journal | `observability/journal.py` | one line per activity | ActivityJournal |
| dashboard, daily summary | `observability/llm_agent_dashboard.py`, `scripts/daily_summary.py` | what the page saw last | Dashboard |
| gate | `scripts/gate_llm_agent.py` | one report | BacktestGate |
| backtest notice | `scripts/notify_backtest.py` | process watched, report's time | BacktestGate |

**Studies, and what was retired.**

| component | source | modules |
|---|---|---|
| backtest of the LLM agent | `research/backtest_llm_agent.py` | BacktestReplay, AgentView |
| counterfactual replay | `research/counterfactual.py` | ExecutionReplay |
| multislot simulation | `research/multislot_sim.py` | TrancheLadder |
| contracts | `domain/contracts.py`, `domain/canonical.py` | DecisionService, MarketAdapters |
| retired decision service | `legacy/domain/state_machine.py`, `risk.py`, `legacy/application/decision.py`, `offline_pipeline.py`, `services.py`, `legacy/adapters/ledger.py` | DecisionService |
| retired market adapters | `legacy/adapters/book.py`, `quality.py` | MarketAdapters |
| retired policies, learner | `legacy/policies/core.py`, `legacy/application/local_ml.py` | TrendPolicy, DelayedLabels |
| retired studies | `legacy/research/engine.py`, `run_study.py`, `legacy/validation/oos.py` | EpisodeStudy |
| other studies | 38 scripts of `research/` | none, see section 7 |
| other retired code | 17 files of `legacy/` | none, see section 7 |
| identity and units of the reports | `policies/exposure_v1.py`, three units under `deploy/systemd/` | none, see section 7 |

Nothing under `legacy/` runs any more (its README says so). It is modelled because the
contracts that the live process still uses were written for it, and because its rules
(a numbered list each) say precisely what they promise.

**Interactions.** A market event enters `process_event` (one thread). It reconciles
with the exchange, asks the engine (`evaluate`) for a decision, re-reads the book, sizes
the order, prepares an intent, sends the order, marks the intent, books the fill in the
engine, persists, and synchronises the stop. `LLMAgentEngine.evaluate` runs on that
thread and talks to the worker thread only through `_pending_verdict`,
`_pending_error` and `Thread.is_alive`. The engine's stop level depends on the plan the
playbook resolved; the playbook's label depends on the tracker. The exchange acts by
itself: it fires stops. Every activity is appended to the journal, which the dashboard,
the daily summary and an engine without a checkpoint read back. The numeric policy's file
is shared between the running agent, which saves what it learned, and the promotion
script. The handover script stops one service and arms the other; a lock file keeps them
apart. A backtest writes a report, the notice announces it, the gate judges it, and the
handover asks the gate.

**What is hard, and what would make each part correct.**

- *Order authority*: crash, refusal or partial fill between any two calls. Correct when
  a position never rests without a stop for all of it, never with two stops, when the
  stop on the book is the one recorded, when no order is sent twice and the ledger
  ends up agreeing with the exchange, and when a restart resumes the same plan.
- *Order submission*: a signed request outlives its sender by `recvWindow`, and is sent
  again when its answer is lost. Correct when nothing executes but what was sent, and when
  what the ledger concludes of the order is true and final. One execution is what a
  docstring of the runner claims and the code cannot give (run `double_fill`).
- *Deliberation*: answers arrive late, never, or together with an error. Correct when
  one deliberation runs at a time, a verdict is used once, only a fresh verdict buys, and
  an outage leaves somebody in charge.
- *Playbook and stop*: labels flicker, plans are composed of three tables and two
  multipliers, cost averaging and the ratchet pull in opposite directions. Correct when a
  switch is earned, an opening risks no more than its budget, an order brings the book to
  its target, and a stop that was raised stays raised.
- *Market data*: bars and trades are dropped, repeated and late, the host clock drifts, a
  connection dies. Correct when what the process believes happened, when its own verdict
  on its evidence is measured, and when it neither goes deaf nor ignores a stop.
- *Records*: what is appended and what is saved differ at a crash. Correct when nothing
  that was acknowledged is lost, nothing is learned twice, and no outcome is invented.
- *Handover*: a shell script with `set -e` between two services that share a lock.
  Correct when there is at most one authority, and one left after a refusal.
- *Reports and the gate*: text is read back into fields; figures change sign. Correct
  when who decided is told truly, an alarm means what it says, and the worse of two
  backtests is not the one approved.
- *Studies*: holes in the data, fills after decisions, tests before training. Correct
  when nothing comes from the future and the numbers add up to what the book earned.

`PROJECT.json` lists every hazard at the line where it bites, with the property that
would catch it or the reason why none does.

## 2. Plan

Order of work: what holds money first, then what decides, then what hands over, then
what they all rest on, and last what is reported and what was studied.

| step | modules | checked by | proved in |
|---|---|---|---|
| 1 | `RealtimeRunner`, `RunnerProperties` | `safety`, `live`, `refused`, `unbooked` | `RunnerProofs` |
| 2 | `OrderSubmission`, implementing `SubmittedOrder` | `market` (one of its parts), `double_fill` | `OrderSubmissionProofs` |
| 3 | `LlmDeliberation` | `deliberation`, `llm_cheap` | the module itself |
| 4 | `RegimeTracker`, `ExecutionPlan`, composed by `ManagedPosition` | `playbook` | `PlaybookProofs` |
| 5 | `Handover`, `ActivityJournal`, `OnlineLearning`, `AgentMemory`, `CheckpointStore`, `RiskBreakers`, `EngineRecovery`, `DelayedLabels` | `records`, `tornline` | `RecordsProofs` |
| 6 | `MarketObserver`, `TradeFlow`, `StreamLink`, `SignedRequest`, `DailyHistory`, `KlineDataset`, `MarketAdapters` | `market` | `MarketProofs` |
| 7 | `Dashboard`, `BacktestGate`, `Rollout`, `DecisionService`, `BacktestReplay`, `AgentView`, `TrendPolicy`, `TrancheLadder`, `ExecutionReplay`, `EpisodeStudy` | `offline` | `OfflineProofs` |

`Selection` holds the one loop that many of these share (a Python comprehension with a
condition) and the lemmas about lists, counting and recursion that the proofs of steps 5
to 7 rest on.

Abstract specifications: `SubmittedOrder` (what the ledger promises of an order that may be
sent more than once) is implemented by `OrderSubmission`, checked and proved. `CheckpointStore` is why
`RealtimeRunner` and `OnlineLearning` may take a save as one step, and `OrderSubmission`
is why `RealtimeRunner` lets 30 seconds pass only with no request on its way.

Every invariant and action property of a passing run is stated by a theorem, except one
whose proof stops at its rounding (`OpeningRisksItsBudget`, section 6). What is left is what
TLAPS does not reach: liveness.

## 3. Models

### RealtimeRunner

One thread, the exchange and two durable records. Each action is the code between two
calls of the adapter, and `pc` names the call that comes next, so that a crash, a stop
that fires, a market move or a late request can come wherever the code waits.

| state | code |
|---|---|
| `free`, `locked`, `stops`, `fired`, `orders`, `mkt` | the account at the exchange (external) |
| `intents` | `ExecutionIntentStore` |
| `ckpt` | the file of `EngineStateStore` |
| `eng`, `pos`, `ext` | `engine._state`, `_position`, `_pending_external_order` |
| `dec`, `req`, `ack`, `placed`, `todo`, `ret` | locals of `process_event`, `_sync_protection`, `_cancel_protection` |
| `flying`, `young` | a request whose sender died; the intent's age against 30 s |

`Startup` is `__init__`, `_resolve_unfinished_intents` and `bootstrap`; `Trading` is
`process_event`; `Protecting` is `_sync_protection` with `_cancel_protection`. An
exception that leaves `process_event` is `Die`. Quantities are whole lots (what a step
size leaves behind is a free choice), prices are levels, the stop's level follows entry,
high and plan, and the decision may be anything the two engines can ask for. Whether an
order is sent is the code's (sizing, vetoes, the expected state); what the exchange does
with it (fill, expire in part, refuse) is free. `IntentAges` lets 30 seconds pass only
when no request is on its way: that is what `OrderSubmission` establishes. One call of the
adapter that places an order executes at most once here; what the retry inside that call
can do is `OrderSubmission`'s subject, and it is not at most once.

A resting stop stays on the book unless the wanted level is above it by more than a
threshold, the greater of ten ticks and 0.1% (`realtime_demo.py:1317`). `Slack` is that
threshold in levels: `Matches` keeps a stop that is so much lower, and `IdleStop` and
`SyncTightens` promise the wanted level less `Slack`, and the exact level only for a stop
that was just placed.

`Unprotectable` is a holding that is LONG at the market price (`MinLots`) and below the
minimum notional at the price of its stop (`StopLots`): an opening that filled in part, BTC
the account already had, or what a trim leaves, since `_remainder_is_protectable` asks for
the market price only. `_sync_protection` raises for it (`realtime_demo.py:1315`), every
`bootstrap` does so before an event is read, and the service restarts for ever. The models
keep this case; the liveness properties name it as their exception.

### OrderSubmission (implements SubmittedOrder)

One order: the attempts of `_request`, each of which can still execute until
`recvWindow` after its timestamp; the lookup by client id of `_place_market_order`; the
runner's `mark`; death, `RestartSec`, and the verdict of
`_resolve_unfinished_intents`. The refinement maps attempts to requests, executions to
executions and the ledger's status to open, executed or void. What makes NOT_FOUND true is
not the 30 seconds alone, which count from the preparation and not from the last attempt,
but that the service's `RestartSec` (10 s) is longer than `recvWindow` (5 s); the
assumption `DelayAssumption` says so.

Nothing in the repository says that the exchange refuses a client id that has executed
before, so each request that arrives in time may execute. An order sent again after a
timeout (`binance_execution.py:188`) can then fill twice, against the docstring of
`deterministic_client_order_id` ("so a retry cannot double-fill"): that is the run `double_fill`.
`DoubtfulFills`, part of the invariant, is what does hold: fills beyond one are fills of
requests that were given up for another without an answer.

### LlmDeliberation

The event loop and the worker thread. `evaluate` takes two steps (`Collect...`, then
`Continue`), because the worker may store its answer between `_collect_deliberation`
and the test of `deliberating`; the worker takes a step per pass and one to end, since
`is_alive` is still true after it has answered. The model may be out at any time, a stop
may sell the position at any time, and a restart forgets everything but the book. An
order executes only if the book is still what the decision was taken from. A verdict is
a wish (invested or not), whether it was reasoned, and an identity; the conviction
appears as the weight `resolve_target_allocation` gives it. Note what that implies: at a
conviction of one half or less the regime's default decides, although
`llm_agent.py:809` says that the agent owns the direction.

### RegimeTracker, ExecutionPlan, ManagedPosition

`RegimeTracker` is `observe` with time as ticks, and two history variables (the label
of the latest run of equal observations and its age) that let `SwitchIsEarned` speak
of the past. `ExecutionPlan` is `PLAYBOOK`, `resolve_plan`, `corroborated_regime` and
`resolve_target_allocation` in whole numbers: basis points rounded down.
`ManagedPosition` puts both under the protective engine: a verdict gives a label, the
tracker a regime, `resolve_plan` a plan, `plan_adjustment` a decision; the price may
move before `process_event` sizes the order again; `on_fill` averages, trims or forgets;
the stop follows. Every step succeeds there; refusals and crashes are
`RealtimeRunner`'s. Commission and the cost gate of an opening are left out; money is
whole USDT, quantities hundredths of a coin, and `MoneyAssumption` keeps that unit fine
enough for the smallest order (10 USDT) to buy one.

### The market (composed by MCMarketData)

| module | state and code | what is abstracted |
|---|---|---|
| `MarketObserver` | `points`, `barIds`, `latest`: `_points`, `_closed_bar_ids`, `_latest_price`; `priceAge`, `bookAge`: `_last_price_observed`, `_last_bbo_observed`; `venue`: the closes that happened | time in minutes; a return is the price it starts from |
| `TradeFlow` | `flow`, `memory`: `_trades`, `_trade_ids`; `dated`, `told`: what the venue traded and the stream delivered | a trade is its number |
| `StreamLink` | `link`, `pause`: the generator `events` and its back-off; `stop`: the event; `sky`: the venue | one message waits or does not |
| `SignedRequest` | `offset`: `_time_offset_ms`; `attempt`: the loop of `_request`; `drift`: the host clock | whether a call gets through, not what it does |
| `DailyHistory` | `daily`: `_daily_closes`; `today`, `half`, `ahead`: the venue's day and a host clock ahead of it | two halves of a day |
| `KlineDataset` | `cursor`, `tries`, `page`, `rows`: the download; `end`: `config.end` or the host's clock, which may be ahead of the venue's; `data`, `manifest`: its two files | a bar is its interval, forming or final |
| `MarketAdapters` | the local book: `localBook`: `BookGeneration`; `wire`, `snapshot`: what is on its way | the content of a book is the set of updates it reflects |
| | the guard of deliveries: `seen`, `high`, `watermark`: the guard; `deliveries`: its results | numbers for times and sequences |

### The records (composed by MCRecords)

| module | state and code | what is abstracted |
|---|---|---|
| `Handover` | `step`: the next command of the script; `quant`, `llm`, `unit`: services, processes, `ExecStart` on disk and loaded; `files`: the state files | an engine state is where its entry came from |
| `ActivityJournal` | `lines`: the file with torn tails; `durable`: appends that returned; `view`: the last read | an entry is its number |
| `OnlineLearning` | `policy`, `file`, `experience`, `steps`, `lastCommit`: `ExposureAgentRuntime` and its files; `script`: the promotion script | weights are the steps learned |
| `AgentMemory` | `decisions`: the table; `misread`: rows resolved under a retired name (history) | an outcome is the move of the price; calibration is left out |
| `CheckpointStore` | `saving`: the system call of `save`; `temporary`, `target`, `older`: the file system, and what a power failure may show | a state is its number |
| `RiskBreakers` | `book`: peak and start of the day; `opened`, `best`: what the account reached (history) | what the decision source would do is free; `update_equity` and the save after it are one step, so that a crash between them, which loses one reading, is left out |
| `EngineRecovery` | `alive`, `lots`, `engine`, `activities`: process, account, saved state and journal; `seen`: the highest price met, `shown`: as much of it as a line shows, `plain`: one purchase made the position (history) | lots and two marks |
| `DelayedLabels` | `learner`, `stored`, `rows`: model in memory, on disk, file of experiences | the model is what it was trained on |

### Reports, studies and the retired service (composed by MCOffline)

| module | state and code | what is abstracted |
|---|---|---|
| `Dashboard` | `pages`: journal entries with their reason codes; `standing`, `holds`, `rights`: the engine | a code is its head and fields |
| `Dashboard`, the page | `lastOk`, `lastEval`, `lastChange`: the page's script; `server`, `count`: what it polls | seconds |
| `BacktestGate` | the gate: `report`: the measurements the nine criteria read | whole percents |
| | the notice: `watcher`, `since`: `main` and `wait_for`; `run`, `onDisk`, `channel`: process, report, messenger | hours |
| `Rollout` | `index`, `marked`, `bought`, `cash`, `held`, `exposed`: the walk; `earned`, `bridged` (history) | logarithms of prices |
| `DecisionService` | the states: `sys`, `event`: `SystemState` and the rules SM-001 to SM-031 | guards as booleans |
| | the chain: `request`, `ledger`, `tail`, `known`, `exported`: one call of the service and its file | references match |
| `BacktestReplay` | `cursor`, `stock`, `tally`: the loop, the book, the counters | shares of equity and a residue |
| `AgentView` | `historyIndex`, `block`, `answer`, `force`: the index, whose last bar may be of the day that is forming, the prompt's facts, live or in a replay, and the answer | a fact is the last day it depends on |
| `TrendPolicy` | `setup`, `prior`, `desk`: POL-101, 102, 103 | a bar is what the rules tell apart; its `place` is read for the step the setup is about to take, since POL-102 and POL-103 arm, fail and complete on independent quantities |
| `TrancheLadder` | `ladder`: the locals of `run_simulation`; `account` (history) | a tranche is one unit |
| `ExecutionReplay` | `rules`, `inForce`, `steady`, `position`, `result`: `simulate` | a bar crosses the stop or not |
| `EpisodeStudy` | `candles`, `windows`, `openTrade`, `armedFor`, `episodes`, `studyReport`: the two harnesses | signals and returns are free |

In each of the three compositions the parts share no state. A behaviour picks one part
and the others rest, so that a run explores every part by itself and not their product.

## 4. Runs

Passing runs, and the questions they ask:

- **`safety`** (`MCRealtimeRunner`): does the runner keep the book protected and the
  ledger true whatever comes between two calls? `IdleProtected`, `OneStop`, `IdleStop`,
  `NeverUnmanaged`, `NoDoubleExecution`, `LedgerAgrees`, `SyncTightens`, `PlanIsKept`, and
  `IInv`, the inductive invariant of the proofs. Three lots, a stop needs 2 and a market
  order 1; 3 prices, a stop may stay 1 level low; 2 purchases and a sale; 2 stop ids,
  symmetric.
- **`live`** (`MCRealtimeRunner`): once faults stop above every stop, does the loop come
  back (`KeepsRunning`) and is a naked position covered (`NakedIsTemporary`)? Yes, but for
  an unprotectable holding, which both properties except by name and which the run reaches:
  as in `safety`, a stop needs 2 lots and a market order 1. Three lots, 2 prices, one id per
  side.
- **`deliberation`** (`LlmDeliberation`): threads, outages, stops, restarts. One worker and
  one answer (`DeliberationInv`), `CollectedOnce`, purchases only from verdicts
  (`OnlyVerdictsOpen`), `AttemptsAreSpaced`, and nobody falls silent (`KeepsDeliberating`,
  `OutageIsManaged`). Cadence 2 ticks, back-off up to 3 failures, 2 threads.
- **`playbook`** (`MCManagedPosition`): do the numbers keep their promises along whole
  positions? `PositionInv`, `SwitchIsEarned`, `StopOnlyRises`, `OpeningRisksItsBudget`,
  `AdjustmentSettles`. The four regimes, two postures, two convictions, daily volatilities
  of 2% and 12%, prices 90, 100, 110, two trades, horizons of 1 and 2 ticks.
- **`market`** (`MCMarketData`): is what the process believes of the market true?
  `EvidenceIsTrue` (points, qualified evidence, flow, published book, frame),
  `DriftIsSurvived`, `DownloadsAreWhole` (of what had closed when the download began), and
  `MarketIsHeard` (never deaf, a stop honoured, a refresh heals the daily history). One more
  part is the order on its way: does the protocol implement `SubmittedOrder`
  (`IsSubmittedOrder`, `SubmissionInv`), and does the ledger conclude (`OrdersSettle`)? 3
  attempts (`max_retries`), 2 faults, recvWindow 1, restart 2, the patience of 30 seconds 6
  ticks.
- **`records`** (`MCRecords`): through crashes, restarts, lost checkpoints, a handover and a
  promotion, is what was written still there, learned once and told truly? `OneAuthority`,
  `HistoryIsKept` (journal without a hole, saved state survives, watermark recovered),
  `LearningIsHonest` (learned once, commits spaced, labels of their horizon),
  `OutcomeIsEarned`, `LossesStop`.
- **`offline`** (`MCOffline`): are reports, gate, studies and the retired service what they
  say? `ReportsAreTrue`, `WorseIsNotApproved`, `SimulationIsHonest` (rewards are the
  book's, days walked once, a replayed decision shown only what had closed before its day
  and a live one no later day), `DecisionsAreSound`, `EntriesAreEarned`.

Runs that TLC must refute, each a line of the repository that the code does not keep:

| run | what the counterexample shows |
|---|---|
| `refused` | a position that is large enough for a stop and naked when the market is at its stop: `bootstrap` forces a placement that the exchange refuses, at every restart |
| `unbooked` | a stop that fires between its placement and the next read, or during a restart, is forgotten without booking or journal |
| `double_fill` | an attempt times out after it was sent, the next one is sent, and both execute: two fills for one client id |
| `llm_cheap` | a cheap verdict applied to a book the stop has changed opens a position without reasoning |
| `tornline` | the append after a crash continues the torn line: the entry is lost, and the one after it makes the journal unreadable |

**Why the bounds are enough to be interesting.** *Runner*: three lots with a minimum of two
for a stop are the fewest that give an opening, a top-up, a trim that leaves something, and
a remainder too small to protect; three prices put the market above, at or below a stop and
leave room for a stop that stays a level low; two purchases and a sale make every pair of client ids; crashes, moves and stop fills are not
bounded. *Submission*: three attempts let the first two outlive the third. *Deliberation*:
two threads are one more than the code means to have; two ticks of cadence separate "now",
"backed off" and "due". *Playbook*: 2% volatility arms ratchets within a price step and 12%
makes the ceilings bind; two trades reach opening, top-up, trim and exit, and `MaxAge` is
the longest horizon. *Market*: queues of one to four entries overflow within the modelled
minutes; five days hold more than `MaxHistory` and `Fetch`; two bars a page over five
intervals make pages overlap with holes; six updates and two buffered differences fill and
overflow the buffer; drifts of -6 and 2 are outside both ends of the window of 5. *Records*:
four entries tear, continue and follow; four saves leave an old file below a torn one; three
rows fill a pattern; three dates turn the day twice; two crashes fall between experience and
weights; three activities are a purchase, a sale or a hold and a purchase. *Offline*: eight
bars hold two cadences and a hole; four turns overlap their fills; three regimes give a
switch that is confirmed and one that is not; nine hours make three candles of three
lengths, with a gap. Every bound is a constant named so in its module.

`playbook`, `market`, `records`, `offline` and `tornline` do not check deadlock, because the
bounds on time and trades end their behaviours. Everywhere else TLC checks it.

Every property of a passing run has a mutant: an operator beside the definition it
replaces, marked "Mutant" in its comment, under which TLC finds the property violated.

**Disagreements met while modelling.** These predicates state a sentence of a doc, comment or
message of the repository as their module's comment quotes it. No run checks them, because
the code does not keep them; they stay beside the properties that hold so that a reader
sees the difference.

| predicate | what the code does instead |
|---|---|
| `NumericHoldsTheWheel` (`LlmDeliberation`) | during a back-off with an older verdict in memory the numeric policy is not asked |
| `DeclinedBecauseItMoved` (`ManagedPosition`) | a top-up decided under the new plan is sized under the opening's plan and declined at an unmoved book |
| `TopUpKeepsStop` (`ManagedPosition`) | a top-up above cost raises the average entry, disarms the trailing stop and lowers the stop |
| `CompletedDaysOnly` (`DailyHistory`) | a host clock ahead of the venue takes the forming day for closed |
| `ClosedBarsOnly` (`KlineDataset`) | a host clock ahead of the venue, or a `config.end` in the future, lets the forming bar into a download |
| `OutcomesAreComplete` (`AgentView`) | live, the last outcome of the history index can be of a day that has not ended |
| `EntryIsInherited` (`Handover`) | the shadow saves once more after the copy, over what it was to inherit |
| `OnlyTheScriptPromotes` (`OnlineLearning`) | an agent that loaded a promoted policy saves its status back over a demotion |
| `SupportIsIndependent` (`AgentMemory`) | samples are counted although their horizons overlap (seen with horizons of 3 ticks; the run's are shorter) |
| `ReappliedAfterCrash` (`DelayedLabels`) | an example whose row was written before a crash is dropped untrained when it is met again past its window |
| `ExitsAreFull` (`BacktestReplay`) | an exit sells whole base steps and leaves a residue |
| `ToldWhatIsUsed` (`AgentView`) | the prompt tells the strategy of today's label; the answer is carried out under the regime in force, which may not have followed the label |
| `FallIsReported` (`TrancheLadder`) | on the bar that empties the account the peak starts over, and the fall of that bar is not noted |
| `PhantomsAreImpossible` (`ExecutionReplay`) | a stop that takes what is left of an older purchase is counted too |
| `DepthIsShown` (`Dashboard`) | the reader takes the first letter of the posture for the mode: a verdict is shown as deliberated when it is DEFENSIVA, and as unknown otherwise |
| `NothingIsRelaxed` (`BacktestGate`) | a report that keeps a fifth of what holding earned passes when its fall is smaller |

## 5. Fairness

- `RealtimeRunner`: the runner's next step is taken (calls return or raise; systemd
  restarts without limit, `Restart=always`; events arrive, as the stream reconnects),
  intents age, faults end. No fairness for stops, crashes or price moves. `NakedIsTemporary` and
  `KeepsRunning` need faults to end: a process that crashes for ever protects nothing.
- `OrderSubmission`, as a part of `market`: the client's next step and time.
- `LlmDeliberation`: each thread and time. Nothing in the code makes a market event pass
  the guards, so the liveness properties assume it (`Watching`); a latched breaker would
  end it.
- `StreamLink`: the thread and systemd keep going, an outage of the venue ends, and `recv`
  returns a message that is there. The remaining parts of the market, the records and the
  offline parts are checked for safety only, without fairness.

## 6. Proofs

`RunnerProofs`: `Invariance` is `Spec => []IInv` for any number of lots, prices, plans
and ids, from the assumptions `RealtimeRunner` makes on its constants (sets of ids
disjoint, sizes and widths positive). `IdleProtected` is not inductive: that the book is
covered at `idle` depends on what `_sync_protection` believed when it computed the size
(`PositionKnown`), on no stop being left when a new one is placed (`StopInv`), and that
belief is only right because no order but the runner's own can execute after it read the
book (`FlightInv`, `LedgerInv`). `NeverUnmanaged` needs that a sale is sized on the book
without its stop (`SaleInv`) and leaves nothing or a position that is still on the engine's
books (`EntryInv`), which in turn needs that a resting stop tells the runner exactly what it
holds (`BookInv`). `IdleStop` needs that a replacement is recorded before the loop goes on
(`RecordInv`) and `PlanIsKept` that only an opening carries a plan (`PlanInv`); across a
restart it compares the plan of the checkpoint with that of the engine restored from it.
`Slack` is any number of levels. Each of the
eleven conjuncts of `IInv` has a lemma with one step per action and relies on those before
it. From it follow `TypeCorrect` (no order overspends), `SingleStop`, `AtMostOnce`,
`LedgerIsTrue`, `Protected`, `Managed`, `StopIsKnown`, `Tightens` and `PlanKept`: every safety
property of the run.

`OrderSubmissionProofs`: `SubmissionInvariance` and, from it, `Implementation`, the
refinement of `SubmittedOrder`, step by step, and `OnlyDoubtsFillTwice`: without a request
that was given up unanswered, one execution. Nothing is assumed of the exchange's treatment
of ids. The invariant is the bookkeeping of time: `left + rest <= RecvWindow + 1` for every
request of a dead process.

`LlmDeliberation` carries its own proofs: `DeliberationInvariance`, for any cadence,
back-off and set of threads; from it `SingleWorker` (two deliberations never run at once),
`VerdictsAreCollectedOnce` and `OnlyVerdictsBuy`. The invariant says that only the thread
the engine knows of is alive, and that no verdict is in the slot and in memory at once.
`AttemptsSpaced` needs `BackoffInv` besides: unless an attempt is under way or its answer is
waiting, the time since the last attempt and what is left of the back-off make up the
back-off of the failures in a row.
`PowersAssumption` states that powers of two are natural numbers, a fact of arithmetic the
provers do not have.

`PlaybookProofs`: `TrackerInvariance` ties `pending` and its age to the history;
`SwitchEarned` is the action property that follows. The history needs the invariant: that the
pending label is as old as the latest run of observations is nowhere stated in the code.
`PlanWithinBudget` is `resolve_plan` for every verdict and every volatility: its numbers are
within their limits, allocation times stop is within the regime's ceiling, and the
break-even floor is no tighter than the trailing stop it engages under. Each number is a
clamped value, so its bounds do not depend on the products below it; the two relations
between numbers follow from `QuotientBound` (what is rounded down and multiplied back does
not exceed what it came from). `PositionInvariance` carries those bounds through every
verdict, order and price, and `StopRises` follows: with cost and plan standing, the stop is
a monotone function of the high watermark (`StopFollowsHigh`). It assumes `MoneyAssumption`,
`VerdictAssumption` and that the tracker's labels are the regimes of the playbook
(`RegimesAssumption`). `OpeningWithinBudget` is the budget of an opening, whatever the price
did between verdict and order: it rests on `BudgetInv` (a plan on its way never risks more
than its ceiling; what the code takes for a position has an entry, so an opening is sized
under the plan it records) and on `LossAtStop`, which carries the share of the equity
through the three roundings of the model. It is proved up to those roundings
(`OpeningKeepsBudget`): the model counts whole USDT, and at some prices, 7, 13 and 937 USDT
with 97 in the account for one, the exact `OpeningRisksItsBudget` of the run is missed by
less than them. `OrdersSettle` is `AdjustmentSettles` at prices where a hundredth of a coin
is worth 9 USDT or less: above that the smallest lot is itself an order, and 910 USDT at 999
with a target of 2.12% would order twice. At BTC prices of the day the real lot is worth
about a tenth of the smallest order.

`Selection` is what the three modules below share: `Kept`, the loop that keeps the elements
of a list that satisfy a condition, `SumOver`, a sum over a finite set (`SumInOrder`), and lemmas about data that are proved by induction. The
library's induction theorems take an operator as a parameter and cannot be used here. Strict
inclusion of finite sets being well founded (`FS_StrictSubsetOrderingWellFounded`, `WFMin`)
can, applied to initial segments: it gives `LeastExists`, then induction over a *set* of
numbers (`InductionOn`, `InductionUpTo`), then that a function defined step by step exists
(`RecursionExists`), and so what a loop computes (`KeptInOrder`, in `MarketProofs` also the
replay of a buffer and the loop over the first bars).

`RecordsProofs`: `RecordsInvariance` is `RecordsInv`, the conjunction of an inductive
invariant for each of the eight parts, for every value of the constants. A step of the
composed system is a step of each part or leaves it alone (`StepOfEachPart`), so a behaviour
of the system is one of every part and each part is proved by itself.
- `OneMayTrade`. `OneAuthority` is not inductive: `HandoverInv` says, for each step of the
  script, which unit is enabled, which process can hold the lock and what a reboot would start.
- `HistorySurvives`. That a read has no hole rests on the order of the lines on disk, torn
  ones included (`LinesInOrder`). A position that one journalled
  purchase made keeps its entry, and its watermark stays between what the lines of the
  journal show and what was met since: an evaluation is at one price, the account is read at
  another and the line carries a third, so what only an evaluation saw, or a process that
  died before it wrote its line, is lost with the checkpoint. The proof rests on which entry
  of the journal made the position (`MadeBy`).
- `LearnsHonestly`. What is pending, on disk and learned is in one order of time (`Before`),
  so a crash between experience file and weights can repeat nothing. The delayed labels need
  that what was trained is older than whatever is still pending.
- `RemembersHonestly`, of `OutcomeIsEarned`. A row keeps the quote of its moment, and a row
  that was resolved under a retired name is the only one that still can have one.
- `StoreInvariance`, `StateSurvives`: what the temporary file holds, and that it is on the
  disk, before it replaces the target. `BreakersInvariance`: the engine's book agrees with
  the history, or it was lost with the new beginning; `LossesStopTrading` and
  `LossesStopTheSystem` are the action property that follows.

`MarketProofs`: `MarketInvariance` is `MarketInv`, in the same way for the eight parts of the
market.
- `EvidenceHolds`. *Observer*: the points are of the venue's closes, in order and of minutes
  that have ended; a return starts from one of them. *Flow*: the memory of trade numbers is
  the newest that were told, so a number that is not in a full memory is older than all of
  it (`FlowInv`), and what is appended stays in order. *Local book*: the content of a live
  book, and of one that is being replayed, is every update up to its last. *Guard*: every
  identity that was seen has a first delivery, so a repeated one was applied before; a frame
  without a gap between neighbours has none at all (`ContiguousIsWhole`).
- `DriftSurvived`, for more than one attempt (with one, the property is false: the first
  refusal is the last): a request that was refused for its clock is retried only after the
  offset was measured.
- `DownloadsHold`, for an end that may lie ahead of the venue's clock: what is promised is of
  the bars that had closed when the download began. That nothing is skipped is not inductive: rows hold every bar before the
  cursor and a page holds every bar behind it as far as it goes (`RowsInv`, `PageInv`); a
  page is the first bars from its cursor because whatever it leaves out is newer than all
  of it (`PageIsFirst`). `GapsAccount` is the manifest: between the first and the last row
  of an ordered history each interval is a row or in exactly one gap.

`OfflineProofs`: `OfflineInvariance` is `OfflineInv`, in the same way for all the parts that
`MCOffline` composes.
- `ReportsHold`. *Entries*: each one keeps what ties it to the stage that decided (`SaysSo`),
  whatever the runner wrote over it; the four origins partition the journal, and the last of
  some entries is found by a scan from the end (`LastOfThem`). *Page*: the last poll saw the
  journal as it was then, and an entry written later is newer than that poll (`PageInv`).
  *Notice*: nothing is composed before the vigil is settled (`NoticeInv`).
- `DecisionsHold`, `EntriesHold`. Every rule of the machine, one by one, leads to a lawful
  state without a forbidden jump (`Admitted`), and so does the list of them and the first
  that applies (`RulesJoin`, `TransitionIsSound`); so does each outcome of P0 to P5
  (`DecideIsSound`). While the process runs, what it knows is what is on disk (`ChainInv`), so
  nothing is appended twice. A setup that is armed has the bar that armed it in the record,
  and every bar since was sound (`EarnedBy`, `LatestIsKept`).
- `GateIsNotForSale`: one lemma per measurement. It assumes `GateAssumption`: counts, falls
  and commissions are not negative. Without it the market's gain would weigh the wrong way.
  A deeper fall is worse where the market did not lose (`FallWeighs`); in a losing market, and
  for the commission, the risk-matched criterion is not monotone and nothing is claimed.
- `SimulationsHold`. `SimulationIsHonest` speaks of what a study has reported, and none of
  its parts is inductive: each needs where the walk is.
  - *Rollout* (`RolloutInv`): the rewards so far are the book's at the bar of the last fill,
    not at the bar that is read, and the rest is what a hole bridged (`Wealth`).
  - *Backtest* (`ReplayInv`): a walked day is before the one that is due, so no day comes
    twice; a day that is neither walked nor due belongs to a decision that is missing; the
    counters of orders partition the orders, and there is room for one more (`Accounts`,
    `OrderCounted`, `AfterMark`).
  - *View* (`ViewInv`): a row is in the index only when its outcome is of a bar the venue has;
    in a replay the cutoff leaves those that had closed before the day decided about, and live
    there is no cutoff and no row of a later day.
  - *Ladder* (`LadderInv`): the tranches are spaced, so a price names at most one of them;
    the peak is the greatest value of the account and the drawdown the deepest fall below an
    earlier one (`FallIsMeasured`, until a disaster empties the account).
  - *Counterfactual* (`ExecutionInv`): the days replayed have no gap and end before the mark
    (`SpanInv`), which is what makes the next bar one of the decision in force; a stop is of
    a position born before it (`StopsInv`); a label is followed when the last ones, as many
    as the count says, were the same (`LabelsInv`).
  - *Episodes* (`StudyInv`): the pieces are in order and have no gap (`PiecesInv`, from
    `CandlesAreWhole` and `SegmentsAreWhole`), an open position is of the piece that is read
    (`TradeInv`) and the closed ones are behind it (`EpisodesInv`). The report is computed by
    loops: the folds part the returns (`FoldsPart`), the drawdown is the deepest fall between
    two of them (`DrawdownIsTheFall`), and of a split and its complement at most one is
    overfitted (`NoMoreThanHalf`).
  - *Types* (`TypesInv`): that the parts keep their types is a conjunct of the property.

  It assumes of the constants what the code takes for granted: regimes are numbered
  (`ReplayRuleAssumption`), a ladder has a finite set of prices (`LadderAssumption`), a
  report has two folds or more (`EpisodeAssumption`; `oos.py` has five by default), and bounds are
  numbers.

**Only model-checked**: every liveness property (`KeepsRunning`, `NakedIsTemporary`, `OrdersSettle`,
`KeepsDeliberating`, `OutageIsManaged`, `MarketIsHeard`), which is beyond TLAPS, and
`OpeningRisksItsBudget` to the last digit (see above). No module declares a recursive operator:
what a loop of the code computes is a recursive function or a fold, and where a proof needs
it for every input, it is derived with the induction over a set of numbers of `Selection`.

## 7. Not modelled

| left out | why |
|---|---|
| the prompt, the HTTP client and the parsing of answers (`llm_agent.py`), the rendering of memory and playbook blocks, nearest neighbours among past days and decisions | wording and distances; what may be in the prompt and what is taken from an answer is `AgentView` |
| features, normaliser, initialisation, epochs, floating-point gradients and weight decay (`exposure_agent.py`) | arithmetic: whether the decay or the gradient moves a weight is a matter of sizes. What is trained, saved, loaded and promoted when is `OnlineLearning` |
| calibration of convictions and its warning (`llm_memory.py` 345-438, 543) | averages over resolved rows, shown to the agent |
| scores and confidences of the observer, parsing of stream messages and klines | arithmetic and formats; whether evidence is qualified is `MarketObserver` |
| balances, symbol filters and their rounding as the adapter parses them | readings of the exchange, free in `RealtimeRunner` |
| dry-run paths of the runner, which only read; the shadow process of the handover saves its state and is in `Handover` | no order, no state but the checkpoint |
| `_persisted` of the protective engine | used by no engine of the repository |
| layout, series and wording of dashboard and summary; statistics printed by backtest, counterfactual and multislot studies | presentation |
| studies of `research/`: `agent_calibration`, `bound_clients`, `capture_decomposition`, `check_agent_gradient`, `check_agent_learns`, `churn_source`, `compare_runs`, `cross_section`, `cross_section_ic`, `cross_section_monthly`, `delisting_event_study`, `exposure_diagnosis`, `exposure_gap`, `extend_history`, `flow_diagnosis`, `flow_strategy`, `frontier_client`, `inspect_agent_regimes`, `live_performance`, `live_stop_diagnosis`, `llm_independence`, `llm_latency_probe`, `low_vol_strategy`, `measure_regime_detection`, `model_bakeoff`, `posture_diagnosis`, `regime_attribution`, `regime_corroboration`, `regime_playbook_study`, `regime_taxonomy`, `regime_walkforward`, `run_multislot_study`, `score_announcements`, `show_trace`, `static_frontier`, `stop_geometry_validation`, `stop_noise_sizing`, `train_exposure_agent` | run by hand over a dataset, a report, a trace or the journal, to print figures, probe a model or train one: no state beyond their arithmetic; what they concluded reached the code as constants |
| files of `legacy/`: `adapters/market_data`, `application/live_demo`, `application/ml_training`, `domain/features`, `observability/snapshot`, `policies/evidence_v3`, `policies/evidence_v4`, `replay_pkg/engine`, `simulation_pkg/fills`, `research/freeze_and_wait`, `research/validate_evidence_v3`, `validation_pkg/offline`, `scripts/compare_agents`, `scripts/demo_report`, `scripts/run_demo`, `scripts/run_realtime_demo`, `scripts/train_local_model` | nothing of it runs: the loop over closed bars that `realtime_demo.py` replaced and its entry scripts, training of the local model, fill simulation, snapshots, indicator arithmetic and evidence bundles |
| `policies/exposure_v1.py`, units of the summary and of the page | names, versions and start-up: no state |

Two limits of the runner's model are worth naming. The runner marks whatever status the
exchange answers (`realtime_demo.py:1725`), and one that is not terminal leaves the intent
unresolved while trading goes on; the market orders of the modelled exchange answer FILLED
or EXPIRED, the code has no path that would read a later status of the same order, and no
property covers this hazard. And `IdleProtected` speaks of `idle`: when a stop is refused the
process dies before it gets there, so that hazard is covered by `KeepsRunning` and
`NakedIsTemporary`, and by the run `refused`. A crash between a fill and its booking loses
the plan the opening decided; the position is adopted under the default geometry, which
`PlanIsKept` does not forbid because no checkpoint carried the plan yet.
