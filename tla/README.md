# A TLA+ verification of freqpanda

freqpanda stores candles, tests and optimises declarative trading strategies,
and trades them: a data pipeline fills Postgres, an HTTP API with a job queue
runs backtests and optimisations, and a supervisor keeps one bot process per
bot that the user wants running. This directory holds TLA+ models of the parts
where order, failure and restart matter, the TLC runs that check them on small
instances, and the proofs that TLAPS checks for every instance.

## 1. Inventory

| part | state | operations | what makes it correct |
|---|---|---|---|
| execution supervisor (`supervisor.py`) | `_children`, `_given_up`, restart times, the snapshot of `desired_status` | one reconciliation pass per poll interval: reap, restart or give up, start, stop | one process per bot, none lost, crash loops bounded, a stopped bot goes down, a wanted one comes up |
| bot process (`runner.py`, `bot.py`) | tracker position with its highest price, quantity, equity, peak equity; the `bot_state` row | start and resume, a candle close (hard stop, exit, entry), stop | no position forgotten or sold twice, trades match sales, the row has what the process knows but the highest price since the entry |
| risk middleware (`risk.py`) | peak equity, time of the last order | hard stop-loss, circuit breaker, order checks | the drawdown is measured from the true peak, a tripped bot halts |
| brokers (`broker.py`) | none | open and close a long, on paper or on an exchange | an order that was executed is known to the bot |
| realtime feed (`feed.py`) | candle history, candle in progress | backfill, websocket, polling fallback, stop | every closed candle delivered once, in order |
| live interpreter (`live_interpreter.py`) | the open position | one step per closed candle | same decisions as the batch interpreter |
| execution repository (`repository.py`), schema (`migrations/`) | bots, bot_state, bot_trades, bot_events, credentials | one committed statement per call | status and trades say what happened |
| job queue (`freqpanda_api/jobs`) | job rows, the Redis queue, worker processes | create, enqueue, mark running, complete, fail | every job ends, and ends once |
| HTTP API (`freqpanda_api/routers`) | none of its own | bots, strategies, jobs, compare | no operation pulls a row from under a process |
| strategy interpreter (`freqpanda_strategy`) | none | validate, indicators, conditions, position loop | one position at a time, no look-ahead |
| backtest, walk-forward (`freqpanda_backtest`) | none | windows, equity, metrics | windows cover the data, test after train |
| optimizer (`freqpanda_optimize`) | none | generate, evaluate, select | the winner is chosen on training data only |
| data pipeline (`freqpanda_data`) | the candle table | incremental fetch, page by page, upsert | no gap, no duplicate, no candle stored while it forms |
| webapp (`webapp/`) | form drafts, the polled job | forms, polling | polling stops when the job ends |

Interaction. The user's clicks reach the API, which only writes
`bots.desired_status`. The supervisor polls that column and starts and signals
processes; it never talks to them otherwise. A bot process reads candles from
the exchange through its feed, decides with the live interpreter, asks the risk
middleware, places orders with its broker, and reports by committed statements
on one connection. The rows it leaves are all its successor has. The API also
queues jobs in Redis; workers execute them and write the job rows the webapp
polls.

What is hard here: a pass works from a snapshot and may block for 30 s per stop
while users and processes go on; a pass can fail half-way; what the supervisor
knows dies with it; an order and the rows about it are separate calls, and a
process may be killed between any two; a report of a failed statement uses the
same connection. `PROJECT.json` lists each such place under `hazards`.

## 2. Modules

| module | models |
|---|---|
| `Supervisor` | the reconciliation loop, the table of operating-system processes, `desired_status`, `status`, failed passes, restarts of the supervisor |
| `SupervisorHistory` | the same with an observer that remembers crash loops, circuit breakers and spawns after the supervisor forgot them |
| `Reconciler` | the abstract controller: desired, observed, running |
| `SupervisorRefinement` | the supervisor as an implementation of `Reconciler` |
| `Bot` | one bot: process, exchange account, database rows |
| `JobQueue` | API handlers, the Redis queue, workers, job and result rows, the polling page |
| `Candles` | time, what an exchange answers, and the rules both users of it share: closed, next page, next cursor |
| `Feed` | the candles of one bot: polling or websocket, delivery, stop, restart |
| `DataPipeline` | runs of the pipeline over the candle table |
| `Backtest` | the loop of `run_strategy`, a candle at a time |
| `Live` | the decisions of a bot over the same candles, next to it |
| `ControlPlane` | requests, the supervisor and a bot's process on the rows of a bot, its strategy and its credential |
| `Optimize` | walk-forward windows, a study per window, the final refit |
| `Signals` | validation, indicator columns and conditions of a definition |
| `StrategyRun` | `backtest` and `latest_signal` of a definition, row by row; costs, equity curve, drawdown |
| `Supervisor_proof`, `Bot_proof`, `JobQueue_proof`, `Feed_proof`, `DataPipeline_proof`, `Strategy_proof` (of `StrategyRun` and `Live`), `ControlPlane_proof`, `Optimize_proof` | the theorems |
| `MCSupervisor`, `MCSupervisorHistory`, `MCBot`, `MCJobQueue` | symmetry for TLC |
| `MCOptimize`, `MCStrategyRun` | the definitions tried |

The supervisor and a bot meet in two places, and each model has both ends of
them as choices: `Supervisor` lets a process boot, report and end as `Bot.run` and
`runner.main` can, and `Bot` is killed, stopped and built again at any moment.
`Feed` and `DataPipeline` meet in the table of candles: in `Feed` it grows by
itself. `Bot` has the calls and crashes of a candle's handler without prices,
`Live` its decisions with prices, each candle in one step. `ControlPlane` has the
supervisor as its abstract specification `Reconciler`, which
`SupervisorRefinement` shows it implements, and a bot that is long or flat.
`StrategyRun` runs the loop of `Backtest` on what `Signals` computes, so that the
conditions `Live` takes as an input are those of a definition there.

### Supervisor

`children` and `restart_times` are `_Child.process` and `_Child.restart_times`,
`given_up` is `_given_up`, `desired_running` the local set of one pass, `todo`
the part of `list(self._children.items())` the reaping loop has not visited, and
`waiting` the process `_stop` waits for. `owner` and `phase` are the operating
system's table of processes; a process id is used again only after its parent
collected it. One action stands for one iteration of a loop of
`reconcile_once` with everything that iteration changes: `ReapUndesired`,
`ReapGiveUp` (the database mark included), `ReapRestart` (drop the handle, filter
the restart times, append now, spawn), `Start`, `Stop` up to its wait, and
`StopDone`/`StopKills` after it. The order of a pass (reap everything, then
start, then stop) is in the guards. Iteration order over a Python set or dict
is a choice. Where a call can raise (`_mark_error`, `Popen`) a second action
makes the assignments before the raise and abandons the pass, as `run_forever`
does. Reading `desired_status` is one query, so `BeginPass` is one action; when
it fails nothing changes.

Time is counted in poll intervals. A restart time is kept as its age, capped at
`Window`, because an age of `Window` is out of the window like every older one.
A pass restarts a bot at most once and a sleep separates two passes, so the
ages of a bot are distinct and a set holds them.

The processes end as `Bot.run` and `runner.main` let them: with a report of
`stopped`, `circuit_broken` or `error`, or silently.

### Bot

`pc` names the next call the process makes, so that every repository call and
every order is a step of its own, in the order of `bot.py`. `position` is
`tracker.position`, `quantity` is `current_quantity`, `state` the `bot_state`
row, `trades` the `bot_trades` rows, `bought` and `sold` what the exchange did.
A lot stands for the position it buys, so a forgotten or twice-sold position is
visible. Prices are not modelled: that a candle exits, enters or stops is the
market's choice, and the equity after a trade is any value within one unit of
the one before. Fees are part of that choice. A status report and the event
row written after it are one step. `cut` remembers the lots whose order was not followed by its save: by a kill, a failed statement, an unconfirmed order, or
the circuit breaker. `highest` is the position's `highest_since_entry`, in steps above the
fill: a candle without a trade raises it in memory (`QuietCandle`) and writes a `Heartbeat`,
not the row, so a restart between two candles resumes the lot, its quantity, the equity
and the peak, and starts again with the price of the fill as the highest
(`IdleIsSavedButHighs`); `Live` has what the trailing stop makes of that. Orders are filled
whole or not at all.

### JobQueue

A row of `jobs` is `status`, its results row is membership in `results`, and
`step` names the next statement of `run_backtest_job` or `run_optimization_job`,
which go through the same calls in the same order. `Raises` is any exception of
the `try`, RQ's timeout included, which can be raised after the commit of
`mark_completed`; `WorkerDies` is everything that ends the work horse with
nothing more written. Creating a job is two actions, commit and enqueue. A
request of the page is two queries, `PollJob` and `PollResult`.

### Candles, Feed, DataPipeline

Time is the number of candles that have closed, so that candle k is forming
while the time is k - 1, and "closed" is k <= now. Time passes between any two
steps. A row is its candle; a candle in which nobody traded has none (`Traded`).
An answer is oldest first and without a hole after the cursor; a good one starts
at the cursor and is full or up to date, any other costs a fault. `GoesOn` and
`NextCursor` are the loop of `fetch_ohlcv_since`, of which the feed and the
pipeline are the consumers.

In `Feed`, `history` keeps the last `MaxHistory` rows and starts with one, the
newest stored candle, because nothing looks at older ones. `step` is the await
the loop is in. The websocket gives the rows updated since it last returned and
has no cursor; the clock is read once per answer there, and once per row when
polling. `missed` remembers the candles that were forming at the end of a page
which had a successor: the code drops the row and moves the cursor past it. A row that was
forming at the end of the last page is dropped too, and the next call asks for it again.

In `DataPipeline` each run has a connection, whose transaction may be aborted,
and locals `cursor`, `page`, `more`. `Store` is one committed upsert of the closed
rows of a page. cron starts runs whether or not earlier ones have ended, the first
at time `FirstRun`. `proper` tells whether the page a run holds is what a working exchange
answers, and `Leave` ends the locals with the call they belong to. A candle is `PassedOver`
when a later one is stored and it is not: no run will ask for it. `Settled` is stored, or
passed over after it was the forming row of a page with a successor. `SuccessIsComplete` and
`EveryCandleStored` are about settled candles; that a candle is missed excuses it from
neither as long as a later run can still ask for it.

### Backtest, Live

A candle is its low, high and close and whether the entry and the exit
conditions hold on it: both loops take these from the same functions, and what
those compute is not modelled. Prices are whole numbers, percentages fractions
of `Den`, and the prices of trades are in units of 1 / `Den`, so the comparisons are
exact; `TrailNum = Den` stands for a strategy without a trailing stop.

`bt` is the position of `run_strategy`, `position` the one of the tracker, `saved`
the one of the `bot_state` row. `HardStopLoss` is the check of `Bot` that comes
before `process`; `StopLoss`, `TakeProfit`, `TrailingStop`, `ExitSignal`, `Hold`,
`StayOut` and `Enter` are the ways through `process` with what `_on_candle_close`
does after each, saving or not. A step takes one candle to both loops
(`CandleCloses`), or is one of the faults: the order is rejected or filled at
another price, the candle never reaches the bot, the bot sees candles that were
already seen, the process is restarted. `apart` remembers that candles or orders were not
the same, or that `run_strategy` closed a trade the bot did not, since both were
last flat. `run_strategy` knows no costs, so every fill with slippage
is a fill at another price.

### ControlPlane

`row` is the `bots` table with its `bot_state`: what a bot is configured with,
whether it is desired, and whether its saved state is long. `strategies` and
`credentials` are the tables it references, `ids` what `new_id` returned, so an id
is never used twice. A handler that is one statement is one action
(`CreateStrategy`, `DeleteStrategy` with its cascade, `CreateCredential`,
`DeleteCredential` with the foreign key, `StopBot`); `create_bot`, `delete_bot` and
`start_bot` are several, and `req` holds which statement comes next and the row
read before. The process is `build_bot`, `run` and a candle's handler, statement by
statement: `proc` has the record it read and the position it believes in. An
insert that references the row fails when the row is gone (`Insert`), an update of
it does nothing; orders are placed before anything is written (`OpenLong`,
`CloseLong`), and `late` counts those placed after the row was gone. A process may
end at any step (`Exit`), which stands for every exception that is not about the
row. One owner has everything, because every statement filters by the same
`created_by`. No handler looks at a second bot, except that a credential another
bot uses is not deleted, so one bot shows what several would; two of each of
strategies, credentials and bots were tried with fewer requests.

### Optimize

`index` is the times of the candles, of which any set may be missing; `call` the
arguments. `GenerateWindow` is one turn of the loop of
`generate_walk_forward_windows`; the loop over the windows is `SkipWindow`,
`RunUntuned` (`run_walk_forward`) and `StartStudy` (`optimize`), then `Refit`
(`refit_on_full_history`) or `Return`. A study is `optimize_single_split`: `Trial` is
the objective with what the study makes of its value, `EndStudy` the backtests
of the best. A backtest is an unknown function of definition and slice: its metric is chosen at the first call and remembered (`known`), or it or its score raises
(`UntunedRaises`, `TrialRaises`, `EndRaises`), which nothing catches. `read` is the candles a study
has looked at. Optuna is external: any value of the grid may be suggested, a NaN
trial is dropped, the first of the best stays. A study may stop after any trial
but the first, by its timeout.

### Signals, StrategyRun

A series is a sequence of integers in units of 1 / `Scale`, or NaN. The
indicators are `indicators.py` over the few functions of the library `ta` it
calls, written as they work (full windows, exponential means from the first
number on), the standard deviation replaced by half the range. `ApplyOp` is `_apply_op`,
`Compare` and `Evaluate` are the two halves of `evaluate_condition`; `np.isclose` is
equality of integers. `Refused` is the windows of which `ta`, or pandas below it, raises: an
exponential mean takes none below 1, a rolling one none below 0 and gives NaN for 0.
A condition tree is the sequence of its nodes in the order in
which `evaluate_condition` has their results, a `Logical` after its conditions, so that
the recursion over the tree is a recursive function over positions.
`Valid` is `validate_definition` with the unique aliases of the schema.

A run of a valid definition goes on if its indicators can be computed (`Computable`) and
fails otherwise (`IndicatorRaises`). A state of `StrategyRun` is `backtest` over the rows so far; with each row
`NextRow` computes columns, signals, costs and curve again over all of
them, adds what `latest_signal` says of the last `MaxHistory` rows (`told`), and goes
on with the loop of `run_strategy`. Next to it an account trades candle by candle,
which is what the curve's slices and the list of trades are compared with.
`EquityCurve` says for each row which trades write it (`WrittenFor`) and what (`Written`),
and the last write stands. The
assumption that no indicator takes the name of a candle's column is real: see
the end of section 3. `CapitalAssumption` is there because quantities are whole
numbers here: the capital buys at least one unit at any price.

## 3. Runs

| run | instance | shows |
|---|---|---|
| `supervisor` | 2 bots, 2 process ids, 1 restart in a window of 2, 1 fault | `OneProcessPerBot` and the inductive `SupervisorInv`, which contains `NoOrphan`, `GivenUpIsDown` and `RestartsBounded`; `StoppedGoesDown`, `DesiredComesUp`, and refinement of `Reconciler` with its fairness |
| `supervisor_history` | 2 bots, 2 process ids, 1 restart in a window of 3, no fault | `SpawnRateBounded`, `GivenUpIsMarked`, `RestartOnlyAfterToggle` |
| `bot_safety` | 3 lots, equity 0..4, drawdown 1/2, 2 steps above an entry, 2 cut-off processes | `NothingElseForgotten`, `NothingElseSoldTwice`, `IdleIsSavedButHighs`, the inductive `BotInv` |
| `job_queue` | 1 strategy, 2 jobs, 2 workers, 1 fault | `AnswerHasResult`, `ExecutedOnce`, `EveryJobEnds`, the inductive `JobInv` |
| `feed` | 6 candles (one without trades), pages of 2, history of 3, 1 wrong answer | `NothingElseMissed`, `EveryCandleComes`, `StopIsObeyed`, the inductive `FeedInv` |
| `pipeline` | 2 pairs, 3 candles, the first run after the first, pages of 2, 2 overlapping runs, 1 fault | `NothingElseLost`, `SuccessIsComplete`, `EveryCandleStored`, the inductive `SuccessInv`, which contains `PipelineInv` |
| `live` | prices 2..6, stop and trailing stop 1/4, take-profit 1/2, 2 faults | `SameTrades`, the inductive `LiveInv` |
| `control_plane` | 1 strategy, 1 credential, 1 bot, 2 requests at a time | `BuildFindsWhatItNeeds`, `RefusedMeansDeleted`, `OneOrderAfterDelete`, `DeletedGoesDown`, the inductive `ControlInv` |
| `optimize` | candles at any of the times 0..6, periods 1..3, 2 trials, 2 tunable parameters | `NoPeeking`, `BestIsBest`, `EachTestedOnce`, `Terminates`, the inductive `OptimizeInv` |
| `strategy` | 2 prices, 6 candles, 14 definitions (4 not valid, 3 valid that raise), a feed of 3 rows | `LatestIsBatch`, `CurveIsMarked`, `DrawdownIsWorst`, the inductive `RunInv`, which contains `StrategyInv` |

The inductive invariants contain the type invariants (`TypeOK`).

Two bots are enough for the supervisor: its loops treat each bot alone, and
two already compete for process ids and for the pass (one blocks it, the other
waits). As a process id is free again only when its parent collected it, two ids
let a bot have two processes if the code allowed it. The crash budget is
reached, exceeded and aged out within these windows. Three lots let one be
forgotten, one sold twice and a third be traded normally; two cuts let two
failures meet in one history. Two workers and two jobs let every pair of
handlers meet. Six candles let polling fetch two full pages, cut its history,
and meet a forming candle at the end of a full page; for the pipeline two runs,
three candles and pages of two show a full page that ends with a forming row and has a
successor, and a short one that ends with such a row, which the next run fetches
again; the second pair is there for the transaction the first one aborted. Prices from 2 to 6 around these levels reach every
reason to exit, each also with a higher-ranked one on the same candle, and a
trailing stop above and below the entry; two faults let a restart meet an odd
fill. In `control_plane` two requests are enough for any two handlers to meet
between their statements, with `StopBot` and the deletions in between. Candles up
to time 6 with periods up to 3 give up to four windows, empty slices, a ragged end and
every order of step and test period; two trials let the second beat, equal
or lose to the first, or be NaN. Two prices and six candles cross an average in both
directions, take the profit, the trailing stop and the exit signal, make adjacent trades, and
outlast the feed's three rows; the stop-loss at these prices is taken in `live` only.
`MaxFaults`, `MaxCuts`, `MaxSells`, `MaxEquity`, `MaxHigh`, `Lots`,
`MaxTime`, `MaxCandles`, `MaxLate`, `Runs`, `Requests` and `Prices` are bounds of the model and not of the code; every other
constant is a setting, and `Limit` and `Cap` are 1000 rows made small. `job_queue`,
`control_plane`, `optimize` and `strategy` turn the deadlock check off, because a
finite number of jobs, rows, windows or candles ends; time ends in `feed` and `pipeline`, but restarts and runs go on.

Fairness. `run_forever` never returns and catches every exception, so a pass
that can take a step takes one, and a sleep ends. A worker that is alive makes
its next statement, a handler that committed a job goes on to enqueue it, and an
id in the queue is taken (`rq worker` loops). The
event loop runs, the exchange answers and callbacks return (`Proceed` of
`Feed`); cron starts runs for ever, and each makes its next call (`DataPipeline`).
The supervisor polls, and ends the processes it
no longer wants (`Observe` and `Retire` of `ControlPlane`: `StoppedGoesDown` says the
same of the detailed one). `optimize` is a loop that runs on.
Nothing is assumed of users, bots, time, stops, kills or wrong answers.
`EveryJobEnds` is stated for histories without a kill or a lost enqueue, because
no code looks for jobs left behind by one.

Runs that are expected to fail, one per divergence (`findings` quotes the text
each contradicts):

| run | what TLC shows |
|---|---|
| `supervisor_history_tripped` | a circuit-broken bot exits 0, is still desired, and is restarted |
| `bot_saved` | the breaker raises past the save: the row keeps a position that was sold |

Divergences that the models contain and no run is spent on:

- RQ's timeout raised after `mark_completed`'s commit is caught by `except Exception`
  (`tasks.py:80`), and the completed job is marked failed after the page that polls it
  (`use-job-polling.ts:11`) has stopped.
- The websocket tells of candles updated since the subscription: those that
  closed between the newest stored one and its first answer are never
  delivered, where `feed.py:1-3` promises a callback for each.
- A failed insert is not rolled back (`pipeline.py:71`): every later pair of the run fails
  on an aborted transaction, where `pipeline.py:55` says one pair's failure does not
  stop the others. A later run stores the candles (`EveryCandleStored`).
- A candle that was forming when a page was made, and has closed when `pipeline.py:47` or
  `feed.py:135` reads the clock for it, counts as closed: its row is kept with the prices of
  before its close, and nobody asks again. `exchange.py:69-72` says that forming candles are
  not stored. A row is its candle here, so no property speaks of its prices.
- `validate_definition` looks at the names of parameters only (`validation.py:53`): a period of
  zero is valid and raises in `compute_indicators`, or, for an average, gives no number.
  `RunInv` has that this is the only way in which a valid definition fails.
- A metric that is no field of a result is accepted by the request and raises at the first
  score (`scoring.py:33`): the whole optimization fails. What a trial raises ends the study.
- In the warm-up of an indicator `ne` is true (`conditions.py:40`), and `not` of any
  comparison with it (`conditions.py:74`): a bot can enter on it. The comment at
  `conditions.py:51-53` says such rows evaluate to False. `LatestIsBatch` has that the bot and
  the backtest agree on them.
- An alias may be `close`, `high` or `low` (`validation.py` does not compare them), and
  an alias `macd1` with an alias `macd1_macd` gives two columns of one name: the later
  one replaces the other. `indicators.py:11-13` says that every column stays tied to the
  indicator that declares it. `StrategyRunAssumption` leaves such definitions out.
- `latest_signal` sees the last `max_history` = 500 candles: averages over more than
  those, and every exponential mean, differ from the backtest's, where
  `live_interpreter.py:24-30` promises the same trades. `LatestIsBatch` is about the rest.
- The equity curve is said to be marked to market over every candle (`equity.py:2`); a
  position open at the end is not a trade and shows as idle cash (`CurveIsMarked`).
- `delete_bot` refuses a bot that is desired (`bots.py:121`), but a start between its two
  statements is deleted with the row, and a strategy's deletion asks nothing: a
  process may place one order more (`OneOrderAfterDelete`).
- The case for which `start_bot` checks the credential (`bots.py:129-131`) cannot
  happen: the foreign key keeps a credential that a bot has (`RefusedMeansDeleted`).
- `optimize` raises when no window fits, "silently returning an empty result would be
  easy to miss"; when every window is skipped for an empty slice it returns one.
- A step or period that rounds to zero never ends the loop of
  `walkforward.py:83`; the schema asks for more than zero days and not for a
  candle's length (`Terminates` assumes a candle at least).
- `data_end` is the opening time of the last candle: the last window is dropped when
  it would need exactly the data there is (`EachTestedOnce` has what is left out).

Further consequences of the code that the models contain and no run states:
a restart of the supervisor clears `_given_up`, so a crash loop starts again
without a toggle; a stop and a start within one poll interval does not clear
it; a killed bot keeps status `running`; a bot killed between its buy and its
save comes back without the position (`NothingElseForgotten` says that this is
the only way); a restarted bot has forgotten how high the price was since its
entry, because a candle without a trade is not saved (`SameTrades` allows
a lower trailing stop then and nothing else); the hard stop-loss looks at closes
only, not at every price update as `src/freqpanda_execution/README.md` says, and sells
for less than the stop would have; the supervisor gives up on crash
`max_restarts` + 1 and not on crash `max_restarts`, as the same file says; a job whose worker was killed stays on `running`.

## 4. Proofs

`Supervisor_proof` proves `SupervisorInv` inductive. `NoOrphan` and
`OneProcessPerBot` are not: that no bot gets a second process needs that the
process ids in use are exactly the children and the process being waited for
(`ProcessTable`, `NoOrphan`), that the latter's bot is neither a child nor
desired in this pass (`WaitingIsUnwanted`), and that the bots still to be polled
are children and the ones given up on are not (`PassBookkeeping`). From it follow
`AtMostOneProcess`, `NoProcessIsLost`, `GivenUpStaysDown`, `RestartLimit`, and that
every step maps to a step of `Reconciler` or to a stutter
(`SupervisorImplementsReconciler`). The assumptions are that there are finitely
many bots and that limits are natural numbers; in particular any number of
failed passes and restarts is covered.

The same module proves what the observer of `SupervisorHistory` sees
(`HistoryInvariant`, `CrashLoopsAreBounded`, `MarksLast`, `CrashLoopEndsWithToggle`).
`SpawnRateBounded` counts spawns by their ages, of which the supervisor's own record
loses the first; `HistoryInv` therefore has that the spawns in the window are those on
record and one more (`SpawnsOnRecord`), and that a bot remembered as crash-looping is
still given up and desired (`CrashLoopedIsGivenUp`). That these hold only while no pass
has failed and the supervisor was not restarted is in the properties themselves.

`Bot_proof` proves `BotInv`: at each call, what the process, the row and the
exchange know of the lot in hand (`LotInHand`, `SavedState`), and that every lot
never cut off is held and known, or sold once and out of the row (`UncutLots`).
The no-loss, no-double-sale and one-position theorems are its consequences, so is that
a restart between two candles forgets nothing but the highest price
(`RestartForgetsHighsOnly`), and the saved peak never falls because each process starts at
the saved one.

`JobQueue_proof` proves `JobInv`: whoever is about to write or to tell
"completed" has the result saved (`ResultSaved`), and a job is in one place,
with its handler, in the queue or with one worker, a failed one in none of them
(`OnePlace`). Completeness of answers and finality of failures follow.

`Feed_proof` proves `FeedInv`: what polling still owes before its cursor, or
before a row of the page in its hands, is in that page (`PageIsDue`,
`RequestIsDue`), so what is appended leaves no hole. `DataPipeline_proof` has the
same argument for each run (`RunIsDue`); runs do not disturb one another because
the table only grows. No assumption is made of the sizes of pages, and answers may
be wrong any number of times. `SuccessIsWhole` is the other direction, that a run which
reports success for a pair has settled all that had closed when it began. Its hypotheses
are about the last answer of that run and pair alone: the exchange fills its pages
(`FillsPages`) and this one is in order (`proper`). Earlier answers, failed calls, kills,
other pairs and other runs may be what they like, because what they can spoil is passed
over or behind a newer stored candle: the invariant is about the candles newer than all
stored ones (`Newer`), which are ahead of the cursor or in the page (`PageIsEnough`). A full
page goes on, one that is not full reaches the newest candle, and the counting of a page's
rows is `FullPageGoesOn`. An exchange that answers with less than it was asked for makes the
loop end early and report success, and then nothing of the kind holds.

`Strategy_proof` proves `RunInv` of `StrategyRun`, for any definitions with whole parameters,
prices, costs, `max_history` and number of rows: an invalid one is rejected, one with a window
that `ta` refuses fails, and any other runs, with all the columns that its conditions name. `CurveIsMarked` alone is not inductive: a trade that
closes rewrites a whole stretch of the curve, which showed the cash of before while the
position was open. `AccountInv` has what the account holds and showed on each of those rows, `TradesInOrder`
that no earlier trade wrote them, and `RowsAreWritten` that whichever trade writes a row
writes what the account shows. From it follow:

- `ToldAsBacktested`. The rows a feed keeps are a suffix of those so far (`Aligned`). A full
  window of one is a window of the other (`SameWindow`), so averages and bands agree
  (`SameAverage`), so do operands, comparisons and any tree of them (`SameOperand`,
  `SameComparison`, `SameCondition`), for the row and for the one before it.
- `CurveIsThatOfAccount`. Its second half adds up: gross profit and loss and the equity
  after each trade are three recursions over the trades, and each trade keeps their difference
  (`GainsAddUp`).
- `DrawdownIsTheWorst`. The code looks for the deepest fall from the running maximum only,
  and for the peak only before the trough; that this is the deepest of all pairs of rows
  is `NotSoDeep`, that there is a deepest at all is `DeeperThan` (depth relative to the
  height is transitive, which needs that the curve begins above 0) and `DeepestIs`.

Recursive functions over the trades are shown to exist, and facts about all of their
values proved, by `InductionUpTo`: induction over the set of numbers for which a
fact holds, by its least counterexample. The induction theorems of the library
take an operator and cannot be used.

For `Live` the module proves `LiveInv` and from it `SameTrades`. While the bot and
`run_strategy` are in step they have the same entry price, so stop-loss,
take-profit and exit signal agree candle by candle; a restart can lower only
`highest_since_entry` (`SavedEntry` bounds the row by the position), which
decides nothing but the trailing stop, and not upwards. The strategy's levels, the
prices and the number of faults are arbitrary.

`ControlPlane_proof` proves `ControlInv`: references hold, and whoever keeps a copy of
a row, a request or a process, keeps what the row says as long as it is there
(`References`). A bot's configuration is never changed, so what a bot needs is
there as long as the bot is, through the foreign keys; and a process that placed an
order without a row is at the insert that will end it (`LateIsLast`). It holds for any
number of bots and requests.

`Optimize_proof` proves `OptimizeInv`: windows begin later and later and end training where
testing begins (`WindowsInOrder`), leave no hole by default (`WindowsCover`), and each
is decided with its reason (`Decided`); a study has read nothing but its training
slice and holds the best of what it tried (`StudyIsSound`). `NeverPeeks`,
`BestIsDeployed`, `EveryCandleTestedOnce` and `StudiesEndWithBest` follow, the
last because a NaN score is a number when the study sees it. What a backtest or its score
raises ends the optimization, at any trial.

Every invariant and action property that a passing run checks is proved. What the prover cannot
do and TLC does: the liveness properties (`StoppedGoesDown`, `DesiredComesUp`, `EveryJobEnds`,
`EveryCandleComes`, `StopIsObeyed`, `EveryCandleStored`, `DeletedGoesDown`, `Terminates`) and the
fairness half of the refinement, because fairness and ENABLED are out of its reach. What the
exponential means of `Signals` compute is nowhere said: `Ewm` and `Rsi` are evaluated
by TLC in `strategy`, and the theorems hold whatever their values are.

## 5. Not modelled, and the plan

Next, in order: `RiskChecks` (order checks and their rate limit), the generation of
variants, updates of a strategy under a running bot, the drafts of the web form,
and `Bot` composed with `Supervisor`, with the theorem that the endings of `Bot` are among
those `Supervisor` lets a process have.

Abstracted: orders are not filled in part; Redis, when it restarts, loses ids and gives none
back that a worker had taken; rolling means are whole numbers, rounded alike over any history;
fees and slippage are below 1 and the capital buys at least one unit (the request schema asks
for 0 or more, and of the capital of a backtest for nothing); parameters are whole, where the code truncates them with `int()`.

Left out for good: the Sharpe and Sortino ratios (floating point), the pool that runs
backtests in parallel (pure functions, results in order), the cipher, request
parsing, charts, benchmarks.
