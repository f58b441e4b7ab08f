# Formal model of xuanshu

TLA+ specifications of the trading system in `src/`, model-checked with TLC and proved with
TLAPS.  xuanshu trades OKX perpetual swaps: a *trader* process follows two websocket streams,
evaluates strategies on every market event and sends orders; a *notifier* process carries an
operator's Telegram commands; Redis holds the runtime state both share, Postgres the checkpoints
a restart begins from.

Paths below are relative to `src/src/xuanshu/` unless they start with `docs/` or `tests/` (then
to `src/`).

## 1. The system

| part | code | state | operations | talks to |
|---|---|---|---|---|
| Runtime mode control | `apps/trader.py`, `checkpoints/service.py` | `TraderRuntime`: current mode, `opening_allowed`, active snapshot, checkpoint, fault flags | start, stop, dispatch of an event, fault, recovery, manual controls, publication | streams (events), Redis (read and write), Postgres (checkpoint) |
| Order and position lifecycle | `apps/trader.py`, `state/engine.py` | open orders and positions per symbol, pending actions, pending reversals, cooldowns, the sequence of client order ids | evaluate a symbol, submit an open or a close, order, position and account updates | coordinator, risk kernel, OKX REST |
| Execution coordinator | `execution/coordinator.py` | in-flight entries by client order id, a deque of completed ids | submit open, submit close, done callback, prune | OKX REST, awaiting callers |
| Risk kernel | `risk/kernel.py` | none (symbol sets and a limit) | evaluate; decide whether a strategy replaces another | reads the snapshot |
| Startup recovery | `trader/recovery.py` | none | compare checkpoint, exchange orders and positions | OKX REST |
| Stores | `infra/storage/redis_store.py`, `infra/storage/postgres_store.py` | Redis keys with a local copy, Postgres tables, the "disabled" state | typed get and set | everyone |
| OKX streams and REST | `infra/okx/*.py` | session, subscriptions | login, subscribe, decode, request | the exchange |
| Operator commands, notification delivery | `notifier/service.py`, `apps/notifier.py`, `infra/notifier/telegram.py` | update offset, last delivered row, transfer requests | `/pause`, `/start`, transfers, reports, flush | Telegram, Redis, Postgres, OKX REST |
| Candle history caches | `apps/trader.py` | cached candles, time of the fetch, cooldown after a failure | read through | OKX REST |
| Sizing | `sizing/position_sizer.py` | none | size of an open from balance, risk and limits | backtests, trader |
| Fixed strategies | `vote_trend/`, `vol_breakout/`, `momentum/`, with copies in `apps/trader.py` and `notifier/entry_gap.py` | none | indicators, votes, exits on a sequence of candles | backtests, trader, `/entrygap` |
| Backtests, history download | `*/backtest.py`, `momentum/okx_history.py` | position, account, equity points and trades of a run | fetch the candles, evaluate them one by one | OKX REST |
| Dashboard, rest of the entry gap report, preflight, command lines | `dashboard/`, `notifier/entry_gap.py`, `ops/`, `apps/*_backtest.py` | none | read and print | Redis, Postgres, files |

The trader is one asyncio process.  `_run_trader` starts one task per stream, and each task
handles one event at a time: it applies the manual controls found in Redis, applies the event,
recovers or tightens the mode, publishes, saves a checkpoint, evaluates the symbol and perhaps
submits orders.  The two tasks interleave only where that code awaits: candle history,
`set_leverage`, and the order itself.  The notifier is another process and interleaves with
every Redis call.  Either process may die at any point.

What makes the system hard:

* four writers of one mode: faults tighten it, recovered streams relax it, the operator does
  both through Redis, and a restart computes it anew, from a checkpoint, a snapshot and a
  comparison with the exchange;
* values read before an await and used after it (the decision of an open, the position of a
  symbol);
* the trader reads from Redis what it, or the operator, wrote there;
* requests whose outcome is unknown: a failed `place_order` may have been accepted;
* the answer of a request, the updates of its order and of the position arrive in any order on
  different channels;
* a restart that knows only the last checkpoint, while orders fill and stores are out of reach;
* commands and notifications over calls that time out after having had their effect, by a
  process that is killed and started again with an empty memory;
* fixed strategies that are evaluated on different stretches of the same market: a backtest on
  everything it downloaded, the trader and `/entrygap` on the last few hundred candles;
* a running trader whose engine and checkpoint differ: a flat position is evaluated before it is
  saved, and an order is given up when its request times out.

What makes each part correct is stated with its module in section 3; the hazards, each at its
line, are the `hazards` of `PROJECT.json`.

## 2. Plan

| | module | subject | state |
|---|---|---|---|
| 1 | `RunModes` | the modes and their order | done |
| 2 | `RuntimeControl` | who decides the mode | done |
|   | `RuntimeControlProofs` | its invariants and action properties, for every instance | done |
| 3 | `OrderSubmission`, `ExecutionCoordinator` | one request per client order id; the promise and its implementation | done |
|   | `ExecutionCoordinatorProofs` | its invariants and the refinement, for every instance | done |
| 4 | `TraderExecution` | order, position and pending action of a symbol, two tasks and the exchange | done |
|   | `TraderExecutionProofs` | types for every strategy, the safety of one-sided strategies, reversals when every request is answered | done |
| 5 | `HistoryStore`, `RedisRegister` | the two stores with their outages and local copies, as operators | done |
| 6 | `CheckpointRecovery` | what a trader that starts again knows: composes 5 with the state engine, recovery and the exchange | done |
|   | `CheckpointRecoveryProofs` | types; the checkpoint is what the predecessor had heard but for two windows, and is judged rightly | done |
| 7 | `NotifierDelivery` | offsets, commands, transfers, both flushes: composes 5 with Telegram, OKX and restarts | done |
|   | `NotifierDeliveryProofs` | the commands, the audit trail, the flushes | done |
| 8 | `PositionSizer`, `FixedStrategies` | pure algorithms, as operators | done |
| 9 | `Backtests` | the download and the evaluation, on 8 | done |
|   | `BacktestsProofs` | the download, the order of the trades, what the sizer guarantees | done |
|   | `BacktestResultsProofs` | types, ledger, drawdown | done |
|   | `FoldFacts` | lemmas about folds over sequences, for 6, 7 and 9 | done |

Left: the strategy replacement of the risk kernel and the candle caches with their cooldown;
`TraderExecution` composed with `ExecutionCoordinator` through `OrderSubmission` (a request
there is a submission here); Redis outages in `RuntimeControl`, whose stores always answer.
Every invariant and action property of the passing runs but `SignalsDifferInDoubt` is proved,
where section 5 says so under an assumption on the strategy or the faults; left are theorems
about those extensions.

## 3. The modules and the code

Conventions: an action is one handler, or the part of it between two awaits; names follow the
code; a definition whose name ends in `Bug` is a mutant, a plausible mistake in the definition
after it which shows that a property can fail.  A variable commented *auxiliary* is read by
properties only, *external* stands for something outside the program.

### RunModes

The four modes as the priorities of `_RUN_MODE_PRIORITY`, `_more_restrictive_mode`, and which
modes forbid opening.

### RuntimeControl

| state | code |
|---|---|
| `rt` | `TraderRuntime` and the engine's run mode; `NoRuntime` while no process runs |
| `pc`, `event`, `left`, `decision` | the two stream tasks: label, event at hand, remaining signals, decision carried across `set_leverage` |
| `store` | Redis: run mode, fault flags, manual release target |
| `published` | Redis: the latest strategy snapshot, written by an external publisher (nothing in `src/` calls `set_latest_snapshot` in production) |
| `saved` | Postgres: the latest checkpoint |
| `notifier` | the command the notifier is half way through |
| `history` | auxiliary |

| actions | code |
|---|---|
| `Boot` | `build_trader_runtime`, then `_run_trader` to the creation of the tasks: snapshot, checkpoint, comparison of every symbol, startup gate, publication |
| `Stop` | a crash at any point, or the end of both tasks |
| `ReceiveMarket`, `ReceiveUpdate`, `ReceiveFlat` | `_dispatch_runtime_event` to the publication: sync, event, recovery |
| `ReceiveFault`, `StreamEnds` | a `FaultEvent` in `_consume_stream`; the iterator ends |
| `Publish` | `_publish_runtime_state` and the checkpoint of a private event |
| `Evaluate`, `ResumeSignals`, `SendClose`, `ResumeClose`, `AbandonOpen`, `SendOpen`, `ResumeOrder` | `_evaluate_symbol`, `_submit_signal_open`, `_submit_position_close`, cut at the awaits |
| `Pause`, `PauseFlags`, `Start`, `StartRelease` | the two commands, cut between their Redis writes |
| `PublishSnapshot` | the publisher |

Choices made: the comparison of a symbol at startup either finds a mismatch or does not;
strategies yield any number of signals up to `MaxSignals`; the kernel may refuse for the reasons
not modelled (whitelist, flags, expiry).  The two adjacent Redis reads of
`_sync_manual_runtime_controls` and those of startup are one step.  The budgets of a checkpoint
are constants that no code spends, so `can_open_new_risk` is `~reconcile`.  Redis and Postgres
answer here; where they do not is `CheckpointRecovery`.

Correctness:

* `ReconcileKeepsHalted`: nothing releases a trader that must still be reconciled;
* `FaultsBoundMode`: the mode is never looser than a raised flag asks;
* `RelaxesOnlyWhenClean`: each of the four relaxing paths (recovery, release, published
  snapshot, restart excepted) happens only without a standing fault, without a due
  reconciliation and with an approved snapshot;
* `StoreShowsRuntime`: no path through a handler forgets the publication;
* `HaltStopsEvaluations`: what a halt does *not* stop is bounded: per task, the opens of the
  evaluation it was in;
* `ReleaseServed`, `StreamFaultsClear`: what must eventually happen.

### OrderSubmission and ExecutionCoordinator

`OrderSubmission` is the promise to the callers: one outstanding request per client order id,
the same answer for everyone who asks for the same order, failed orders may be asked for again,
settled ones are forgotten only above a capacity.

`ExecutionCoordinator` is the code: `inflight` (`inflight_by_client_order_id`), `completed` (the
deque), and the calls.  `Join` and `Place` are the two ways through `submit_market_open` and
`submit_market_close`, `TaskEnds` the end of the shielded request (its failure says nothing of
the exchange: the order may have been accepted), `FinalizeFailed` and `FinalizeSucceeded` the
done callback, which runs in a later turn of the event loop than the end of the request and
includes the pruning, `Leave` a caller that resumes or is cancelled.  A call refused by its
decision, or one that raises for other parameters, changes nothing and has no action.

Correctness: `CompletedAreStored` (the deque and the stored responses agree and are bounded),
`ResponsesMatchRequests`, `WaitersHaveTask`, `SettledNotPlacedAgain`, `CallersAnswered`, and the
refinement `ImplementsSubmission`.

### TraderExecution

One symbol, from the market event to the position: what the trader knows, what the exchange
holds, and the two feeds between them.

| state | code |
|---|---|
| `position`, `orders` | `positions_by_symbol`, `open_orders_by_symbol` of the state engine |
| `pending`, `reverse`, `cooling` | `pending_position_actions`, `pending_reverse_signals`, `open_execution_failure_cooldowns` |
| `entered` | whether the latest candle is the entry candle of the last open |
| `task` | where the public and the private task are in `_evaluate_symbol`, and the signal, position and order they carry across their await |
| `requests`, `held`, `orderFeed`, `positionFeed` | external: requests under way, units held per side, the private channel's updates of orders and of positions |
| `exposed` | auxiliary |

| actions | code |
|---|---|
| `Evaluate`, `Skip`, `BeginOpen`, `CheckExit`, `NoExit` | `_evaluate_symbol` between its awaits; `_submit_signal_open` up to `set_leverage` |
| `SendOpen`, `SendClose` | staging and submission |
| `OpenSucceeds`, `OpenFails`, `OpenRefused`, `LeverageFails`, `CloseSucceeds`, `CloseFails` | what follows the answer |
| `ReceiveOrder`, `ReceivePosition` | `on_order_update`; `on_position_update`, `_sync_position_entry_context` and the evaluation of a reversal |
| `NewCandle`, `CooldownExpires` | time |
| `Accepts`, `Executes`, `Rejects`, `Cancels`, `Reconnect` | the exchange: it answers before, when or after it fills, cancels what it accepted, and after a disconnection sends the positions again but not the order updates |

Choices made: the strategies are those of a fixed snapshot, at most one signal per evaluation
(vote trend; a snapshot that does not change disables no strategy, so the branch for a disabled
pending reversal is dead, and so is the second close path for short momentum, which
`_opposite_signal` always precedes).  An open is one unit.  A lost answer is a failure the
trader sees while the request lives on.  The process does not restart within this model; what a
restart knows is `CheckpointRecovery`.

Correctness:

* `OneOpenPerExposure`: an open is never sent on top of another one that filled or is on its
  way, whatever order the answer, the order updates and the position come in;
* `PositionsKnown`: no position of the exchange goes unnoticed;
* `ReverseOpensFlat`: the open of a reversal goes out only when the exchange has closed the
  first side, although the trader keeps one position for both;
* `SymbolUnblocks`: a pending action or a tracked order does not stop the trading of the symbol
  for ever.

### HistoryStore and RedisRegister

Operators on a value, for the modules that hold the store in a variable.

`HistoryStore` is `PostgresRuntimeStore` as one process sees it: the shared tables, the rows the
process wrote itself, and whether an SQL error has disabled the database for the rest of its
life.  `DatabaseLost` followed by the operation itself is the statement that fails: the code
falls back within the same call.  `WithRow`, `RecentRows` and `HasNotification` are the store's
methods, `NewProcess` a restart, `WrittenElsewhere` another process.

`RedisRegister` is one key of the Redis stores: the shared value, and the local copy that is
read when the key is missing or Redis does not answer.

### CheckpointRecovery

| state | code |
|---|---|
| `phase` | down, awaiting the recovery requests, running, halted |
| `engine` | the state engine: tracked orders and the reported position of a symbol |
| `requests`, `reversing`, `evaluating` | orders whose request is not answered; is there a `pending_reverse_signal`; is the private task in `_evaluate_symbol` before its checkpoint |
| `version`, `checkpoint` | `startup_snapshot.version_id`, `startup_checkpoint` |
| `read` | what the two requests of the gather have returned |
| `history`, `published` | `HistoryStore`, and the latest snapshot as a `RedisRegister` |
| `connected`, `book`, `held`, `feed` | the private stream; external: orders, position and events of the exchange |
| `moved`, `dropped`, `died` | auxiliary: did the exchange change between the answers; confirmed orders given up since the last save; what the last process knew |

| actions | code |
|---|---|
| `Boot` | `build_trader_runtime` and `_run_trader` to the first await: snapshot, checkpoint of the same version, or a startup checkpoint, which is not compared |
| `AnswerOrders`, `AnswerPositions`, `Compare`, `RequestFails` | `run_startup_recovery`, its gather cut in two; the gate and the checkpoint behind it |
| `SendOrder`, `Answered`, `GivesUp` | staging and the request; its answer, which begins or ends a reversal; its failure, which clears what is tracked although the order may have been accepted, and saved as live |
| `ReceiveEvent`, `Evaluated`, `ReceiveAccount` | a private event: the engine, then the checkpoint; for a flat position that a reversal waits for the evaluation comes between them, cut in two at its awaits |
| `DropReversal`, `RefreshSnapshot`, `Connect`, `Crash` | the reversal of a strategy no longer enabled, the published snapshot, a subscription that starts with the position; the end at any time |
| `ExchangeStep`, `Publish` | accept, refuse, fill by units, cancel; the publisher |

Every call of the database may disable it, every read of Redis may fail, within `MaxFaults`. Of
the checkpoint table only the newest row is kept, since only that is read.

Correctness:

* `RestartJudged`: recovery lets a trader run exactly when the checkpoint tells what the
  exchange has, order by order, provided the exchange does not change between the two answers;
* `NothingForgotten`: a process that starts finds the position and the confirmed orders its
  predecessor had heard of when it ended, unless a store was lost or the version differs.  The
  two windows of the code are in it as what they may leave, and nothing else: a position that
  was closed while a reversal waited for it is still listed if the process ends in the
  evaluation, and so are orders given up since the last save.  Both make the restart halt.

### NotifierDelivery

| state | code |
|---|---|
| `pc`, `job`, `batch`, `todo`, `current` | the loop of `_run_notifier`: where it is, the `deliver_text` under way with its attempt, the fetched updates, the candidates of the flush, the update whose transfer is awaited |
| `offset` | `next_update_offset`, in memory only |
| `history` | `HistoryStore` |
| `telegram`, `okx`, `received` | external: updates and the last forgotten one, transfers made, messages in the chat |
| `handled`, `fresh`, `faults` | auxiliary |

| actions | code |
|---|---|
| `FetchUpdates`, `FetchFails` | `fetch_updates`; which errors end the process |
| `HandleUpdate` | the chat check, the command, the offset |
| `TransferFunds`, `ConfirmTransfer` | the transfer with its audit rows before and after the await |
| `Send` | one attempt of `deliver_text`, with its row and what a failure does to its caller |
| `BeginProactiveFlush`, `TellCandidate`, `BeginPendingFlush`, `RetryPending`, `PollAgain` | the two flushes: windows, order, deduplication |
| `StartProcess`, `Killed`, `DatabaseFails` | docker, a kill with a call in flight, an SQL error |
| `TraderWrites`, `UpdateArrives` | the trader's rows and the operator |

`Candidates` is `_collect_proactive_candidates` without wording, a row with nothing to tell
yielding `NoCandidate`; `Latest` and `Retryable` are the two halves of
`_collect_pending_notifications`; `Only` takes the first of each key.  A key is what the
deduplication key is made of.  Every fault is one of `FaultKinds`; `lost` is a call that had its effect.  `/pause` and
`/start` are `query` here: their writes are `RuntimeControl`'s.

Correctness:

* `ForgottenWereHandled`, `HandledOncePerProcess`, `CommandsHandled`: a command is never lost,
  never executed twice by one process, and executed in the end;
* `TransfersAudited`: the audit trail brackets what happened to the funds;
* `ToldOnce`, `WrittenIsTold`: two overlapping flushes tell everything they look at, and repeat
  only what an unanswered send or a lost record hides from them.

### PositionSizer, FixedStrategies and Backtests

`PositionSizer` is `calculate_open_order_size` over fractions of lots.  `FloorToLotSize` is the
floating-point division of `_floor_to_lot_size`: it loses a lot at whole contracts, and may lose
one at other multiples, which is a choice.

`FixedStrategies` has indicators as exact fractions, and the signal of each strategy: `Signal`
(a backtest at its `i`-th row), `LiveSide` (the trader on the rows it has) and `ReportsReady`
(`/entrygap`).  The formulas of the votes are the same in the code's copies and are written
once; what differs is the rows.  `LiveRows` are those the trader and the report fetch:
`LiveRowsLimit` of them, with which their averages start.  Momentum is evaluated by backtests
only.  Rounding of the floats is left out.

`Backtests` first downloads (`FetchPage`, while `CandleCloses` goes on:
`fetch_okx_history_rows`), then goes through the rows (`EvaluateCandle`: `Exit`, `Hold`, `Pass`
or `Enter`) and ends (`Finish`): `evaluate_vote_trend`, `evaluate_vol_breakout` and
`evaluate_momentum_candidate`, which differ by their strategy.  The variables have the names of
the locals.  Money is counted so that margins and fees are whole numbers.

Correctness:

* `FetchedIsLatest`, `DownloadEnds`: what is returned ends with the candle that was the newest at
  the first page (`latest`, auxiliary), without a gap and up to the limit, and the loop ends;
* `LedgerBalances`: the account is the initial one plus the results of the trades, less what is
  held;
* `FeesCovered`: the margin buffer pays for the entry fee;
* `TradesInOrder`, `DrawdownIsWorst`: what a result reports (the drawdown of vote_trend and
  vol_breakout; momentum adds up the results of its trades instead);
* `SignalsDifferInDoubt`: the trader opens, and `/entrygap` shows, what a backtest opens at the
  same candle, unless one of the comparisons of averages is closer than what is left of the
  averages' first values (`Leftover`), which the windows do not share.  They do differ then:
  in the run, candles exist where vote_trend, and candles where vol_breakout opens in one of the
  two and not in the other.

## 4. Runs

| run | module, cfg | shows | distinct states |
|---|---|---|---|
| control_fixed | `MCRuntimeControl`, `ControlFixed.cfg` | the safety of the mode in the production setup: a fixed snapshot, two symbols, one fault of each kind | 1.34 million |
| control_published | `ControlPublished.cfg` | what Redis shows, and when the mode relaxes, while snapshots are published: approved normal and halted ones, an unapproved reduce_only one | 1.42 million |
| control_live | `ControlLive.cfg` | an applicable `/start` is served, stream faults clear | 85 thousand |
| coordinator | `ExecutionCoordinator`, `Coordinator.cfg` | bookkeeping, refinement and an answer for every caller: two ids, two parameter sets, two callers and room for one response | 43 thousand |
| execution_single | `MCTraderExecution`, `ExecutionSingle.cfg` | a one-sided strategy with lost answers, cancelled orders and disconnections: no second open, no unnoticed position | 12 thousand, up to symmetry |
| execution_reverse | `ExecutionReverse.cfg` | a reversing strategy with cancelled orders and disconnections opens the other side only when flat | 47 thousand, up to symmetry |
| execution_live | `ExecutionLive.cfg` | with lost answers the symbol is always released again | 16 thousand |
| recovery | `CheckpointRecovery`, `CheckpointRecovery.cfg` | through two lost answers or failures and any number of restarts, with a reversal under way, a trader that starts judges its checkpoint rightly and finds what its predecessor had heard | 2.25 million |
| notifier_commands | `MCNotifierDelivery`, `NotifierCommands.cfg` | each command is handled, at most once by a process; the audit trail holds | 466 thousand |
| notifier_alerts | `NotifierAlerts.cfg` | what the trader writes is told, and repeated only after a lost answer or record | 220 thousand |
| backtests | `MCBacktests`, `Backtests.cfg` | on every market of seven candles, four parameter sets of three strategies: complete download, balanced account, live signals that differ only in doubt | 560 thousand |
| find_minimum_refused | `FindMinimumRefused.cfg` | a request of exactly one contract is refused although the margin pays for it: a violation, section 6 | |

Run one with `tlc -config ControlFixed.cfg MCRuntimeControl`.

Bounds, and why they suffice:

* `NumSymbols = 2`: what startup does with a mismatch depends on whether a symbol is the last;
  two distinguish that.
* One code per fault class: the code only distinguishes the four classes and whether the set is
  empty; two flags of different classes still meet.
* `MaxSignals = 1`: two tasks with one signal each already overlap in every pair of labels; more
  only repeats a loop whose bound is proved for every value.
* `MaxVersion = 2`: a snapshot replaces another one and the checkpoint of an older version is
  found at a restart.
* Two ids with `MaxCompleted = 1`: the smallest instance in which pruning has a choice of a
  wrong id; two callers make every race of two.  The proofs hold for every number.
* Three order ids and `MaxPosition = 2`: two outstanding submissions, a further one and the
  position they may add up to; ids are used again when nothing refers to them.
* `MaxFeed` two or three: an order's two updates with a later order's behind them; the exchange
  waits when a feed is full, which only delays it.
* `MaxOrders = 2`, `MaxSize = 2`: an open that fills in two parts, and the close that follows it
  or a second open after a flat position; with `HeldAtStart = {0, 1}` also the close and the
  open of a reversal of what is held at first.  `MaxBacklog = 1`: a fill's two updates behind
  another event; the exchange waits when more are on their way. a checkpoint order can match a wrong exchange order.
  `MaxFaults = 2`: one store lost or request unanswered before a crash, another at the restart.  One published version
  besides the bootstrap one: a checkpoint of the other version occurs.
* `MaxInputs = 3` with `FetchLimit = 2`, `RowLimit = 2` (20 in the code): more updates than a
  page, more rows than a window.  `MaxFaults = 2`: a lost answer followed by a kill; both
  attempts of a CRITICAL text fail (`CriticalAttempts = 2` in the run with trader rows, the
  code's 3 in the other).
* Seven candles, pages of four, a limit of six, downloads that start at three or six: one, two
  and incomplete pages, more candles than the limit, candles that close between pages.  Three
  candles, at closes 2, 4 and 8, with `Leverage = 2` make positions that win, lose, stop and
  lose everything.  The trader's and report's windows have four rows (`LeastVoteRows`,
  `LeastBreakoutRows`, `MostRows`; 240, 120 and 300 in the code): fewer than a backtest has at
  its last candles, and more than it has at its first ones when the market is older than the
  download.
* In `RuntimeControl` neither the number of events nor of restarts, commands or faults is
  bounded.

Symmetry (order ids) is used only for safety.  `CHECK_DEADLOCK` is off for the backtests only,
which end.

### Fairness

`RuntimeControl`: asyncio runs a ready task, every REST call ends (at the latest by its
timeout), the ticker and account channels keep sending while connected, and docker restarts the
trader (`restart: unless-stopped`, `docker-compose.yml:27`).  A task competes with the other
one, which may block it again and again, so strong fairness is needed: asyncio's ready queue is
first in, first out.  It is written out as `[]<>Ready => []<><<A>>_vars`, which is cheaper to
check than `SF_vars(A)` and means the same since `Ready` is the enabling condition.  Nothing is
assumed of the operator, the publisher, faults or crashes, and the liveness properties except a
stream that has ended.

`ExecutionCoordinator`: the client's timeout ends every request; the event loop runs every
scheduled callback: weak fairness of `SomeTaskEnds` and `Finalize`.

`TraderExecution`: asyncio runs the task whose await has ended, and handles the next message of
a feed; the exchange settles every request it got (fills, rejects or cancels).  An answer may be
lost and nothing forces `Evaluate`, `NewCandle`, `CooldownExpires` or a fault. `CooldownExpires`
waits until nothing is outstanding: fifteen minutes are longer than the exchange takes to settle
and report a request.  Without that, an open lost for more than fifteen minutes could be
doubled.

`NotifierDelivery`: the loop goes on, since every call has a timeout, and docker starts the
process again: weak fairness of `Loop`.  Faults are bounded by `MaxFaults`; they need not occur.

`Backtests`: each page is answered or the program fails: weak fairness of `FetchPage`; candles
may close between any two pages.

## 5. Proofs

TLAPS checks the following for every value of the constants that satisfies the module's named
assumptions: `ControlConstants`, `CoordinatorConstants`, `ExecutionConstants`,
`RecoveryConstants`, `NotifierConstants`, and `BacktestConstants` with `SizerConstants` and
`StrategyConstants`.  They say that bounds are natural numbers, sets of rows and snapshots have their
shape, and `None` is no other value.

| module | theorem | property | argument |
|---|---|---|---|
| `RuntimeControlProofs` | `TypeCorrect` | `TypeOK` | `Inv` |
| | `ReconcileHalts` | `ReconcileKeepsHalted` | `Inv` |
| | `FaultsBound` | `FaultsBoundMode` | `Inv` |
| | `RelaxesClean` | `RelaxesOnlyWhenClean` | from `Inv`, per action: every change of `rt` is `Clean` |
| | `StoreShows` | `StoreShowsRuntime` | inductive together with `Inv` |
| | `HaltStops` | `HaltStopsEvaluations` | `HaltInv` |
| `ExecutionCoordinatorProofs` | `CoordinatorTypes` | `TypeOK` | inductive |
| | `WaitersServed` | `WaitersHaveTask` | `Sound` |
| | `ResponsesMatch` | `ResponsesMatchRequests` | `Sound` |
| | `CompletedStored` | `CompletedAreStored` | `Kept` |
| | `SettledOnce` | `SettledNotPlacedAgain` | `Kept` |
| | `Implements` | `ImplementsSubmission` | step by step, from `Kept` and `KnownFinite` |
| `TraderExecutionProofs` | `ExecutionTypes` | `TypeOK` | `Typed`, for every strategy |
| | `PositionsKnownOneSide` | `PositionsKnown` | `SideInv`, when one side is signalled |
| | `OneOpenOneSide` | `OneOpenPerExposure` | `SideInv`, when one side is signalled |
| | `ReverseFlat` | `ReverseOpensFlat` | `TwoSided`, when no answer is lost |
| `CheckpointRecoveryProofs` | `RecoveryTypeOK` | `TypeOK` | `Inv` |
| | `RestartRemembers` | `NothingForgotten` | `Inv` |
| | `RestartIsJudged` | `RestartJudged` | `ReadTrue`, `LeftOverIs` |
| `NotifierDeliveryProofs` | `CommandsNotLost` | `ForgottenWereHandled` | `Commands` |
| | `CommandsOnce` | `HandledOncePerProcess` | `Commands` |
| | `TrailBrackets` | `TransfersAudited` | `Trail` |
| | `NotifierTypes` | `TypeOK` | `Commands`, `Trail`, `Honest` |
| | `KeysToldOnce` | `ToldOnce` | `Honest` |
| `BacktestsProofs` | `FetchesLatest` | `FetchedIsLatest` | `Fetching` |
| | `TradesOrdered` | `TradesInOrder` | `InOrder`, `Scanning` |
| | `FeesPaid` | `FeesCovered` | `Money`, when the buffer is at least the fee at full leverage |
| `BacktestResultsProofs` | `LedgerKept` | `LedgerBalances` | inductive with `Books` and `Holding` |
| | `TypesKept` | `TypeOK` | `Books`, `Holding`, `Loaded` |
| | `DrawdownKept` | `DrawdownIsWorst` | `Books`, `DrawdownIs` |

`RuntimeControl`: `Inv` is `TypeOK`, plus `Good(rt)` while the trader is up, plus `SavedSound`.
`Good` adds to the two properties that the engine's mode is the trader's: the recovery path
relaxes from one and publishes the other.  `SavedSound` says that a saved checkpoint which still
needs reconciling was saved halted: without it a restart could load a checkpoint from which the
startup gate reaches a looser mode.  The operators that change the mode have lemmas of their own
(`TightenedFacts`, `SyncedFacts`, `RecoveredFacts`, `RefreshedFacts`, `GatedFacts`,
`StartedFacts`), and each action's step cites them. `HaltInv` bounds, per task, the opens
already sent since the halt plus those it may still send (`Owed`: the signals left, and one for
an open between decision and order) by `MaxSignals`; the sent ones alone are not inductive.

`ExecutionCoordinator`: `Sound` adds to the two properties that an entry that succeeded, or
whose response is stored, has its parameters among the accepted ones: that is what the next
joiner is answered with.  `Kept` adds `Remembered`: an id that settled `k` other ids ago, `k <
MaxCompleted`, is at place `Len(completed) - k` of the deque, which pruning has therefore not
reached.  `Implements` maps each action to one of `OrderSubmission`; the callback of a request
that succeeded maps to a stutter, or to forgetting the oldest response.  The promise allows that
only above the capacity: the full deque and the new response are distinct settled ids
(`SettledExceed`, by the pigeonhole principle, where `KnownFinite` says that finitely many ids
are known whatever the set of ids is).

`TraderExecution`: `Typed` adds what a task carries across each await.  `SideInv` adds for a
strategy of one side that nothing is reversed (`OneSided`), that the last message of the feed,
or the last one read, tells the position (`Reported`), that one open is on its way and none over
a position (`Apart`), and `Noticed`: a trader that nothing keeps from opening has nothing left
to read and nothing on its way.  `Noticed` holds across the await of `set_leverage`, which is
where the argument would fail for two sides.

For two sides `TwoSided` says what a reversal goes through.  `Closing`: while a close is
pending, there is one side `c` all of whose requests are that close and whose flat report is the
last of the feed, and nobody is about to open; while none is pending, no report is flat and no
close is requested.  `Turned`: from the flat report until the last task has opened, nothing of
the first side is held or requested.  `Reversing` and `Alone` say which tasks may be where: the
private task is busy with nothing but a reversal, and when it finds the reversal done the public
task has done it and tracks an order (`Tracks`), so it does not decide an open of its own.
`Identified` tells requests, messages and tasks apart by their ids: an order the exchange
rejected is not requested any more, which is why giving up a close clears nothing that lives on.
A lost answer breaks it, and TLC finds how, so the theorem assumes that `Faults` has none: a
close or open that was given up lives on, both sides may be held, and the flat report of one is
taken for the close of the other, since the trader keeps one position for both.

`CheckpointRecovery`: `Inv` is `Typed`, `Tasked` (only a running trader waits for an answer, a
flat position or its evaluation), `Remembers` and `Numbered` (orders are in the book once; an
order the exchange has not accepted is unconfirmed in the engine and named by no event).
`Remembers` relates three things: the engine, the checkpoint in memory and the newest row.  The
row is the checkpoint as long as the process can write; the checkpoint lists the position of the
engine, unless the private task is evaluating a flat one, and the confirmed orders of the
engine, with those in `dropped` besides.  Without `Numbered` a refusal could take away
a confirmed order that no checkpoint would miss.  `RestartJudged` compares a fold with a set:
`LeftOverIs` says that the greedy matching of `_orders_match` leaves the same orders over
whatever order the listed ones are taken in, since an order of ours matches at most one of the
exchange's.  `ReadTrue` says that what was read is what the exchange has, unless that moved.

`NotifierDelivery`: `Commands` is `Shaped`, `Past` (what Telegram forgot, or the offset passed,
was handled), `Ahead` (a batch leaves no command out), `Once` (what this process handled lies
before the offset, and the rest of the batch does not) and `Staged`.  `Trail` adds that the
tables hold their rows (`Recorded`) and that the counts of audit rows bracket the transfers with
one more for a transfer under way (`Bracketed`).  `Honest` bounds how often a key was told
(`Counted`) by its row, plus the calls and processes that ended unanswered, plus the databases
lost, of which a process that runs without its database keeps one in hand until it has told the
key itself (`Bound`).  That holds since what is being delivered or waits for a retry is not on
record (`Unsent`) and waits once (`Waiting`), and since the "sent" row of a key is its last
(`SentLast`, in `Orderly`), so that the retries, which look at the latest row only, never find an
older failure.  `CandidatesAre`, `RecentIs` and `PendingIs` say what the flushes read.

`Backtests`: `Fetching` says that what was downloaded is an interval that ends with `latest`, the
newest candle at the first page, and less than the limit while the loop runs; `PageIs` and `FetchStep` are its
lemmas.  `Scanning` says that the loop is behind every closed trade and at most `hold` candles
ahead of the open one.  `Money` rests on the sizer: `SizeFits` (the margin of what is sized is
within the buffer) and `BufferCovers` (then what is left pays for the fee); the assumption
`BufferPaysFee` is 95 % x 3 x 0.04 % <= 5 % for the defaults of the code.  The ledger needs, of
each action, that what it takes from one of the two balances it books in the other or in a trade,
and `TotalAppend`: a trade more adds its result to the sum.  `DrawdownIs` says that the loop
behind `i` equities has their peak and a loss that no other of the `i` exceeds (`Covers`).

Folds and recursive functions are recursions over data, which the library's induction theorems
do not reach.  `FoldFacts` does induction on a set instead, by its least counterexample
(`LeastNat`, `UpTo`): it shows that a recursion on `1 .. n` has a solution (`FoldExists`,
`RunExists`), only one (`RunUnique`), and that the function a fold chooses has its value
(`FoldValue`).  An invariant of the *run*, the sequence of its intermediate values, then says
what the fold returns: so `TotalIs`, `LeftOverIs`, `OnlyIs`, `LatestIs` and `DrawdownIs`.

Only model-checked: liveness (`ReleaseServed`, `StreamFaultsClear`, `CallersAnswered`,
`SymbolUnblocks`, `CommandsHandled`, `WrittenIsTold`, `DownloadEnds`), which is out of the
prover's reach, and `SignalsDifferInDoubt`: how far an average forgets its first value is an
induction over the values.  `RefusedOnlyWhenShort` is false.

## 6. Where code and documents differ

A finding with a run that shows it:

* `find_minimum_refused`: `1.0 // 0.01` is `99.0`, so a request of exactly one contract, the
  lower bound of every request, is floored to 0.99 contracts and refused as
  "insufficient_available_margin" with any balance (`sizing/position_sizer.py:79`).

What the models do because the code does it, and a document says otherwise:

* an event that recovers a stream relaxes a paused trader: nothing reads the `manual_pause` flag
  (`apps/trader.py:1694`; `docs/operations/alerts.md:25` has it halted until `/start`);
* the startup loop keeps the recovery result of the last symbol, so a mismatch of an earlier one
  is hidden (`apps/trader.py:2142`;
  `docs/superpowers/specs/2026-04-19-trader-live-execution-design.md:199`);
* the kernel reads the snapshot's mode, and `opening_allowed` is read only at startup: a trader
  tightened to reduce_only decides opens (`risk/kernel.py:37`; the same document, line 266);
* in a reversal both tasks find the pending signal when the position becomes flat, and the
  pending action is set only after `set_leverage`: both send an open (`apps/trader.py:1826`;
  `tests/apps/test_trader_app_wiring.py:3008` expects one);
* the pending action of an open goes only with a position: an open cancelled after it was
  accepted leaves its symbol blocked until a restart (`apps/trader.py:1576`; the same document,
  line 222);
* the dedupe keys of mode changes and faults repeat, so a second halt of the same kind is never
  told (`CheckpointCandidate`; `docs/operations/alerts.md:8` asks for an alert);
* a transfer command calls the exchange (`TransferFunds`), where `docs/operations/runbook.md:37`
  says that manual commands do not.

Further facts the models contain, without a property that forbids them:

* a publication between the operator's write and the next read of the run mode overwrites a
  `/pause` (`Publish` between `Pause` and the next `ModeSynced`);
* while a handler awaits the evaluation of a flat position, what it changed is not published: the
  other task may read the stale mode in Redis and take it for the operator's (`ReceiveFlat`,
  `ModeSynced`; excepted in `StoreShowsRuntime`);
* an open whose answer was lost and that fills later than the cooldown is doubled: here the
  cooldown waits for what is outstanding (`CooldownExpires`);
* positions are kept per symbol: with both sides held, the update of one overwrites the other
  (`ReceivePosition`);
* a normal close of the private stream ends its task and leaves the mode (`StreamEnds`), where
  the design wants at least reduce_only;
* the halted mode frozen into the snapshot at startup still refuses every open after `/start`
  (`Started`, `KernelAllowsOpen`);
* a default mode is applied to the first reading of the snapshot at startup only
  (`apps/trader.py:2118`);
* after a double open, a close with the size first reported leaves a rest, and its pending
  action stays until the position is flat, that is for ever (`SendClose`, `SettledPending`);
* a refusal or a failure of one of the two opens of a reversal clears the pending action of the
  other (`OpenRefused`, `OpenFails`), so a later signal may open the opposite side before that
  fill is reported: `OneOpenPerExposure` and `PositionsKnown` are about strategies of one side;
* an answer that is lost for the open of a reversal leaves `reverse` set while the position is
  held, so its exit rules are not evaluated (`OpenFails`, `CheckExit`);
* a position that becomes flat while the private stream is disconnected stays known as held
  (`Reconnect`): `PositionsKnown` goes one way only;
* recovery is skipped when the checkpoint is a startup one, has another version or cannot be
  read, so the start after an uneventful start, a refreshed snapshot or a database error
  compares nothing (`StartWith`, `Loaded`);
* a trader whose comparison succeeded starts with an empty engine all the same: until the first
  message of the positions channel it may open over the position it just compared (`Started`,
  `SendOrder`), and the checkpoint it saves at the start lists nothing, with which a restart
  before the next private event is compared (`NothingForgotten` is about what the engine had
  heard);
* a trader that finds a checkpoint of another version writes its startup checkpoint over it, so
  the position it listed is compared by no later start either (`StartWith`,
  `apps/trader.py:2161`);
* a release target that could not be applied stays in Redis, and a later `/pause` does not
  remove it: it is applied when its condition comes true, to whatever the operator wants then
  (`ReleaseSynced`);
* a strategy whose warm-up is 300 candles or more has never enough rows live and opens nothing,
  where its backtest does (`LiveRowsLimit`; `SignalsDifferInDoubt` excepts it);
* a position the checkpoint lists as closed never matches and halts the start for nothing
  (`PositionsMatch`; `tests/trader/test_recovery.py:369`), and so does an order that filled
  further since (`Matches`), which is cautious;
* orders and positions are read by two requests: an order that fills between the answers may
  make a stale checkpoint match;
* the offset is in memory: after a restart the last commands run again, a transfer too
  (`StartProcess`, `FetchUpdates`);
* a page of updates without text does not move the offset and is fetched for ever
  (`HeadBlocked`);
* a notifier whose database is disabled reads its own rows only and tells nothing of the trader
  until it is restarted (`Rows`); a proactive send that fails without a timeout ends the process
  (`DeliveryFails`);
* an account that lost everything is not checked by the sizer and opens again (`OpenOrderSizes`,
  `sizing/position_sizer.py:41`).

## 7. Not modelled

Per component with its reason in `PROJECT.json`.

* Candle caches: what they hold only delays signals, which are any in the models; `LiveRows` are
  the rows of a fetch, not those of a cache that is out of date.
* The summary line of `/entrygap`, which calls a symbol ready to open short where the strategy
  allows no shorts (`notifier/entry_gap.py:351`), and momentum's own drawdown, the worst sum of
  results from the best sum before (`momentum/backtest.py:258`).
* The OKX REST client, decoding and signing; the signals of unfixed strategies; strategy
  replacement.
* The snapshot a backtest builds from its result, where the digest of `vol_breakout` makes an id
  the trader's parser does not read (`vol_breakout/backtest.py:432`), profit factor and
  stability score.
* The dashboard, which samples and truncates what it reads (`dashboard/service.py:304`), the
  wording and distances of `/entrygap`, preflight, logging and command lines: they change no
  shared state and only read and print.
