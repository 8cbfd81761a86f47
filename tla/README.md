# quantlab in TLA+

`quantlab/` is a laboratory for spot-trading strategies with a path, guarded by
several gates, to real orders. This directory models the parts of it whose
correctness depends on order, failure and concurrency. Paths below are relative
to `src/quantlab/` unless they say otherwise.

The repository also holds a fork of the freqtrade bot (`src/freqtrade`), which
quantlab does not import at run time. The life of a trade and its orders, the
part of it that quantlab's own live engine resembles, is modelled in
`TradeOrders`; the rest of the bot is not.

## 1. The system

Six worker processes (`worker.py`, one role each: market, paper, jobs, trainer,
notify, live) and the API process share one PostgreSQL database and one
directory of candle files. They do not talk to each other in any other way.
`deploy/docker-compose.yml` restarts a process that dies. Every `db.session()`
(`db.py:40-51`) is one transaction, under PostgreSQL's default READ COMMITTED.

| Component | State it keeps | Operations | What makes it correct |
|---|---|---|---|
| Live order engine: `live/engine.py`, `live/exchange.py`, `worker.run_live` | LivePortfolio, LiveOrder, LiveTrade; `verified` in memory | tick, reconcile, send, book, start, stop, kill switch | no order twice, no order of unknown fate forgotten, the database's position is the account's, halts hold, stops are acted on |
| Approval gates: `evaluation/approval.py` | LiveAuthorization | authorize, revoke, gate_reasons | only the owner opens them; withdrawn means withdrawn |
| Job queue: `services.py`, `api/app.py`, `ml/plan.py`, `worker.run_jobs` | Job and the record behind it | enqueue, claim, run, cancel, fail, recover | every job ends; the job and its record tell the same story |
| Paper engine: `paper/engine.py` | PaperSession, balances, PaperTrade, EquitySnapshot | tick, pause, resume, stop, reset | each closed candle once and in order; balances add up |
| Simulation core: `backtest/core.py` | SimState | on_candle | a signal acts at the next open; the balance is never negative |
| Backtester: `backtest/engine.py`, `metrics.py` | none | a loop over on_candle | same accounting as the paper engine |
| Risk rules: `risk/engine.py`, `risk/sizing.py` | none | breaches, entry violations | limits hold at their boundary |
| Evaluation: `evaluation/report.py` | EvaluationRun, EvaluationReport | start run, report, finish | one run at a time; a final report is final |
| Candle store and feed: `market/*` | Parquet files | sync, load, stream | only closed candles; a reader never sees half a file |
| Notifications: `notify/service.py` | Notification | notify, dispatch | at least once; a bad message does not block the rest |
| Watchdog and monitor: `watchdog.py`, `monitor.py` | SystemSetting | check | one alarm per incident |
| Challengers, daily review: `analysis.py` | SystemSetting | start and stop sessions | never stops what the owner runs |
| API and its snapshot cache: `api/*` | process-local cache | every request | a reader never gets a snapshot older than an invalidation |
| Machine learning, strategies, research, optimizer | model files | numeric | outside a model checker's reach |
| AI analysis: `ai_analysis/*` | reports, daily counters | calls to external programs | limits hold |
| Web client: `src/web` | none | rendering | not modelled |
| freqtrade, a trade: `freqtrade/freqtradebot.py`, `persistence/trade_model.py`, `rpc/rpc.py` | Trade, Order; `_exit_lock` | enter, exit, poll, cancel, replace, stop, recover, reload, delete | the amount of a trade is what was bought and not sold; an ended trade leaves nothing behind; a position can always be left |
| freqtrade, the rest | configuration, candles, strategies | backtests, adapters, messengers | not modelled |

How they meet: the API commits owner requests to rows the workers are in the
middle of a tick on (portfolio, authorization, jobs, paper sessions); the market
worker writes the candles that paper and live read; the trainer enqueues jobs
and stops paper sessions; every component adds notifications. The hard
behaviour is therefore a worker that read a row, went away (to the exchange, to
a computation) and comes back after the row has changed, and a worker that dies
between two transactions. `PROJECT.json` lists the hazards at their lines.

## 2. Modules

| Module | Models | Proved about |
|---|---|---|
| `OrderLedger` | what the live engine promises about orders: row first, one at a time, sent once, closed truthfully | as the target of a refinement |
| `LiveEngine` | live engine, approval gates, owner requests, exchange | `LiveEngineProofs` |
| `MCLiveEngine` | crash points of the TLC instances | |
| `JobQueue`, `MCJobQueue` | the job table, its worker, the requests | `JobQueueProofs` |
| `SimCore` | `on_candle` as the set of outcomes of one candle | within `PaperEngineProofs` |
| `PaperSession` | what a paper session promises: one candle after another | as the target of a refinement |
| `PaperEngine`, `MCPaperEngine` | the workers, the requests, the database of one session | `PaperEngineProofs` |
| `SnapshotCache` | the cached snapshot of the API and the requests around it | `StoresProofs` |
| `CandleStore` | one candle file, the market worker and the jobs worker that write it | `StoresProofs` |
| `MCStores` | both of them in one run | |
| `Outbox` | notifications from the row to the owner | `WatchdogProofs` |
| `Watchdog`, `MCOversight` | the watchdog, composed with the outbox it writes to | `WatchdogProofs` |
| `Evaluation` | evaluation runs, reports, authorizations, the trainer's review | `TrainerProofs` |
| `Challengers` | the trainer's virtual sessions for new models | `TrainerProofs` |
| `MCTrainer` | both halves of the trainer in one run | |
| `TradeLife` | what a trade promises, rows and orders together: bought once, sold, closed or dropped, and then at rest | as the target of a refinement |
| `TradeOrders` | one trade of the freqtrade bot, its database rows, the exchange, the RPC calls that take `_exit_lock` | `TradeOrdersProofs` |
| `TradeReload` | the same with an owner who reloads the trade between any two steps of the locked thread | |
| `NumberFacts` | no code: facts about numbers, least and greatest elements of finite sets of them, and sums over them, used by the other proofs | |

### LiveEngine

One environment (`live`), one portfolio. A tick is a sequence of steps at `pc`;
each step is one transaction or one call of the exchange, so the API process and
the market may act between any two of them.

| `pc` | Code |
|---|---|
| idle → verify | `run_live` 199-208: portfolio not stopped, credentials read |
| verify → quote | `verify_key_is_safe` |
| quote → gate | 217-225: active authorization, ticker |
| gate → reconcile | `tick` 146-158 and the list `reconcile` reads (88-90) |
| reconcile, rbook | one question to the exchange per order; answer with `_finish`; then `_book` |
| reconcile → write / candle | `tick` 160-186: two early returns, merge of the authorization, stop check |
| candle → risk | 187-200: early returns, strategy error, `last_candle_ts` committed |
| risk → write | 201-233: breach, exit, entry or nothing |
| write → post → await | `_write_order`; request leaves; response, refusal or timeout |
| book / halt → idle | `_book`; `_halt` |

Steps of the code that are merged: the credentials are read with the list of
running portfolios; the active authorization with the ticker; the list of
`reconcile` with the first transaction (only this process adds or resolves rows
with an open status, so nothing can change it in between); an answer with the
`_finish` that follows it (a crash in between leaves the row open, which is the
state before the answer was handled). A client order id is a pair: the code path
(`e` entry, `x` exit, `s` stop, `k` kill switch) and the candle, minute or
request it is made from, as `ql{pf}e{candle_ts}` is.

Assumptions on the outside, all in the comments of the module:

* A request that was in flight when its caller timed out is settled when the
  exchange is asked about it: it carries `recvWindow` 5000 and the next cycle
  comes 10 seconds later (`exchange.py:46`, `worker.py:228`).
* Every stored key belongs to one account.
* A SELL needs the holding; a BUY may be refused at any time.

Amounts, prices and limits are left out: a position is one unit, "the price is
at or under the stop" is a Boolean the market changes, a risk breach may or may
not happen at each check of a running portfolio.

### JobQueue

One worker (compose starts one). Backtest and train jobs differ in what they save
(one transaction with a unique column; two transactions); sync jobs save
nothing. `optimize` and `sweep` jobs save like a backtest without the unique
column, `analyze` like sync; they are not separate kinds. `claim` and
`cancel_job` read and then write, in two steps each, so the later write wins.
Failures of the database itself are not modelled: after one inside an except
clause a job would stay running until the next restart.

### PaperEngine

One session. A transaction that can meet another one is two steps: the rows it
read, and its commit. `Put` is what the ORM does: it writes an attribute only when
it differs from what was read. The unique columns (`models.py:198`, `:219`) and
rows that are gone undo a transaction, which ends the tick (`ApplyUndone`).
`SimCore.OnCandle` yields every outcome of a candle: execute the pending signal
at the open or reject it, a stop or take-profit inside, a signal for the next
open. One unit of the asset, integer prices that include the fee: a purchase is
below the exchange's minimum exactly when the balance does not pay one unit, and the rounding of a
quantity against its fee (`backtest/core.py:78-80`) is not covered. The resume of a halted
session resets the peak; peaks, like all limits, are data that is left out, and
a running session may be halted at any candle. `reset` refuses sessions of an
evaluation run; `Actions` says which requests a run allows. One request is
served at a time; the two DELETEs of a reset and its balances are one moment.

### SnapshotCache

The handlers run in a thread pool and the middleware on the event loop, so every
access to the shared dictionary is a step of its own. A snapshot is the number
of commits it contains; a build may fail and releases the lock. `told` is what
an answered request has told the owner. The one race the code has is recorded in
`raced` (section 5) and exempt from the property.

### CandleStore

A file is an inode, because `replace` moves a name while another process may
still write to what it named. One candle file, the market worker and one jobs
worker; a process may die anywhere, `last_sync` dies with it. Pages of a
download are one step: nothing is written between them. `overlapped` and
`overtaken` record the two races the code has (section 5).

### Outbox and Watchdog

`dispatch_telegram` is one transaction: a batch is read, messages go out one by
one, and the marks become visible at its commit, or not at all. A message may be
refused for ever (`refused`), fail once, or arrive with its answer lost.
`Watchdog` extends the outbox with the clock, the heartbeats and `check`, which
runs before every batch in the same loop. Stalled candles are one more problem of
the same shape and are left out.

### Evaluation

Environment `live`. Transactions that decide by what they read are two steps: the
count of running runs and the insertion, the active authorizations and their
revocation with the new one. `generate_report` is three: is the run over, the
rows, the report. Reports that are not final are not kept (nothing reads them),
and whether a strategy passed is a choice. Days are bounded, so the last day
stands for all later ones: the review may start again in it.

### Challengers

One algorithm and timeframe. `start_challengers` is one transaction; the list of
sessions to stop is only in memory, and `set_status` refuses a session that was
stopped meanwhile, or fails, which ends the list. `whole` records whether the last review
could stop all it listed.

### TradeOrders

One trade, spot and long, position adjustment off. The main loop and the RPC
handlers that exit, cancel and delete hold `_exit_lock`, so one of them is at work
at a time (`doing`); the exchange fills and cancels between any two of its answers.
`_rpc_reload_trade_from_exchange` takes no lock (`rpc.py:1013-1023`) and is in
`TradeReload`. An order is a record
of what the exchange knows (`exch`) and, once committed, of what the row says
(`book`): a view is a status and a filled amount. `Create` and `Record` are two
steps with a crash in between; such an order is `lost` until it is found again.

| Steps | Code |
|---|---|
| Enter, ExitSignal, PlaceStop, ForcePart | `execute_entry`, `handle_trade`, `create_stoploss_order`, `_rpc_force_exit` |
| Exit → Similar → PlaceExit → Record | `execute_trade_exit`: stops are canceled, an open order is kept or canceled, the exit is placed, its row committed |
| Poll, HandleEmpty | `manage_open_orders`, `handle_stoploss_on_exchange`, `handle_cancel_enter` of an order canceled without a fill |
| Cancel → NextExit | timeouts, `handle_cancel_exit`, `emergency_exit` |
| ReplaceExit → NextExit | `replace_order` of an exit, `handle_replace_order` |
| Replace → ReplaceWith | `replace_order` of an entry, `replace_order_failed` |
| TrailStop → PlaceStop | `handle_trailing_stoploss_on_exchange` |
| Recover | `exit_positions`, `handle_onexchange_order`, with the deletion of a trade that bought nothing |
| Crash → Startup | `startup_update_open_orders` |
| Fetch → Apply, Clash (`TradeReload`) | `handle_onexchange_order` before and after its call of the exchange, without the lock; a row or a deletion the locked thread did not expect |

Every order may fill in part, stops too, and every cancellation may fail or leave
the order open in its answer; what a canceled stop had sold is booked.

Assumed, and therefore left out:

* Amounts are units of the base currency, so fees and rounding do not arise, and
  one unit is never within 2 % of a trade (`DustAssumption`): the code then writes
  the wallet's amount to the trade (`freqtradebot.py:583-590`, `:2083-2086`).
* The exchange can be asked for every order it accepted, and refuses what the
  balance does not cover. So the made-up answer "canceled, filled 0" when an order
  can be neither canceled nor read (`exchange.py:1828-1837`), and the handling of an
  order startup cannot find (`freqtradebot.py:435-445`), are not there.
* `_update_trade_after_fill` cancels the stops when an entry ends or the trade closes
  (`freqtradebot.py:2412-2441`). With position adjustment off no stop stands beside an
  entry, and `EndedIsFlat` says that none is live when the trade closes.
* A reload applies its answer order by order with a commit after each; that is one
  step, and the copy of the trade a thread holds is taken to be the database's.

`TradeLife` sees less of it: how the row stands (`life`), how much all orders of the
trade bought and sold, whether any order still works, and whether every order has
its row (`known`). `TradeOrders` maps `exch`, `db` and `lost` to those (`Life`); polling,
timeouts, cancellation, replacement, stops and recovery stutter there unless coins
move or the row ends. A row is closed when all is sold, dropped when nothing was
bought; unreplaced or deleted, nothing is promised about what is left (section 5).
Once an order was lost in a crash `known` is false, and `TradeLife` promises nothing.

## 3. Runs

Bounds are CONSTANTS named Max...; symmetry is not used.

| Run | Question | Instance and why it is enough |
|---|---|---|
| `LivePosition` | Is the open trade what the account holds; one position; at most one late entry? | one pair, 2 candles (enter, exit or enter again), 1 kill, 1 crash. Crashes are everywhere but between closing a row and booking it: there the property fails (`LiveLostFill`) |
| `LiveLedger` | Closed rows true and final, nothing sent twice; refinement of `OrderLedger`; the inductive invariant | crash anywhere, unfilled (`expired`) outcomes, kill switch, a safe and an unsafe key; one order at a time is live, so two candle ids, a stop id and a kill id let every pair of orders meet |
| `LiveLiveness` | Unknown orders are resolved, due stops are sent | 2 minutes (a stop id is one minute), a crash, a timeout, and only a safe key: under an unsafe one every reconcile is refused and an unknown order stays unknown |
| `Jobs` | Job and record agree; nothing is left running; every job ends | 2 jobs of any kind: one running, one queued, cancelled or re-run after the crash |
| `PaperOnce` | Balances add up, a signal acts at the next candle; refinement of `PaperSession`, so each candle once | 2 workers, 3 candles (signal, entry, exit), gaps, a crash, pause or resume. 3 candles are the shortest complete trade |
| `PaperOwner` | Under stop and reset racing the worker: ranges, one open position, catching up | 1 worker, 3 requests |
| `Stores` | Does the owner see what he did; is the candle file sound and complete? | 2 readers (one builds, one waits or hits), a writer and worker commits up to 3 versions; 2 processes, 4 candles with a gap, one job that backfills or continues, one death |
| `Oversight` | Are problems told and repeated, and messages delivered in order? | one worker and the disk, batches of 2, 3 ticks with a repetition after 2, one message of another component, one deletion, change of settings or death |
| `Trainer` | Evidence before authorization; every run ends; challengers trimmed and tried once | 2 requests at once, 2 runs, 2 authorizations, a death; 3 models, 5 sessions of which 2 are kept, a restart |
| `TradeBot` | Is the amount of a trade right and can a position always be left? | 2 units (partial fills of one), 5 orders (entry, stop, canceled exit, next exit, market exit), 1 crash, 33,376 states; with the refinement of `TradeLife`. Its type invariant is left to the proof |
| `LiveLostFill`, `TradeReload` | statements of the code's comments the code does not keep | the smallest instance that shows it; `TradeReload` lets the owner reload between any two steps of the bot |

`Stores` and `Trainer` each check two modules that share no row: the first state
chooses which one moves. The runs with `CHECK_DEADLOCK FALSE` reach their bounds
(no more candles, commits, days or orders) and stop there.

Fill outcomes in the position runs are `{"filled"}`: an order that expired
unfilled breaks them (section 5).

### Properties

* `AtMostOneUnresolved`: one order of unknown outcome at most, because a tick
  stops at `waiting_reconcile`.
* `PositionKnown`: when nothing is unresolved or waiting to be booked, the open
  `LiveTrade` is the holding. A kill-switch SELL without a row is exempt (section 5).
* `OnePosition`, `LateEntryBound`: no second BUY on top of a position; a halt lets
  through only the one entry already decided.
* `OrderInv` (with `WriteAhead` as a part), `LedgerAgrees`, `FinalForever`,
  `SentOnce`, `LedgerSpec`: the life of an order row.
* `UnresolvedResolves`, `StopActs`: liveness.
* `OutcomeAgrees`, `RunningIsOwned`, `JobsEnd`.
* `BalanceAgrees`, `EntryNext`, `SessionSpec`, `OneOpen`, `CatchesUp`.
* `CacheInv`: an answer contains every write the owner had been told of.
* `StoreInv`, `NothingForgotten`, `NewestArrives`: the file is whole, has closed
  candles only and no hole, keeps what it had and gets the newest candle.
* `DeliveryInv`, `NotTooOften`, `ProblemTold`, `EverythingSettles`.
* `GrantedOnEvidence`: an authorization rests on a final report whose rows were
  read after the last day of a finished run. `EvalInv`, `RunsFinish`.
* `ChallengerInv`: sessions trimmed, no model twice, the newest never stopped.
* `AmountAgrees`, `EndedIsFlat`, `NotStranded`, `Unwinds`, `TradeSpec`: a trade.
  `AmountAgrees` is stated while no open order is filled in part and coins are held.
* `OneSeller`: no two orders that sell stand at the exchange together, even when a
  stop could not be canceled for the exit, as long as no entry was lost.

Every property has a mutant in `PROJECT.json`: a small slip in one definition
(defined next to it, marked "Slip") that the run finds.

### Fairness

The loops of `worker.py` go on (`_guard` swallows every exception) and compose
restarts a dead process, so steps of a worker and restarts are weakly fair. A
request in flight ends, by an answer or by httpx's timeout of 10 seconds.
Strong fairness says that what is tried again on every cycle does not fail every
time: the key check, the ticker, the question to the exchange, the strategy, the
commit of a candle. Nothing is assumed of the owner, of prices or of the clock;
crashes are bounded by `MaxCrashes`. Liveness is stated for an owner who
neither stops the engine nor removes the key: those are disjuncts of the goals.

The same loops justify the newer ones. The market worker retries a download that
failed, and it does not fail every time (strong fairness, `NewestArrives`).
Telegram does not fail every time, except for a message it refuses
(`EverythingSettles`, `ProblemTold`). The trainer's review is weakly fair and days
pass (`RunsFinish`). The bot's loop finishes what it began, asks for its orders
and finds a position the wallet does not cover (strong fairness, because other
steps interrupt it), orders that sell find a buyer, and the strategy wants to
be out again and again (`Unwinds`); TLC refutes `Unwinds` without any one of these.

## 4. Proofs

Every invariant and every safety action property of the passing runs is also a
theorem, for every value of the constants that meets the named assumptions. They
say of the bounds only that they are natural numbers, so no bound of a run is
behind a theorem, and of the sets what the code says of them: `SafeKeys` are
`Keys`, `ChallengersKept` and the batch limit are not 0, the set of syncing
processes and of paper workers is finite, a trade is bought with a positive
amount. Hypotheses that a theorem states on top of them are named below; each is
there because without it the statement is false, and section 5 says where.

**Live engine** (`LiveEngineProofs`).

* `TypeCorrect`; `OrdersCorrect`: `Spec => []OrderInv`. `OrderInv` is `WriteAhead` and
  `LedgerAgrees` strengthened to be inductive: `SendInv` ties `pc` to the one order
  that can be open (at `post` its row is pending and the exchange has not seen
  it, at `await` the request left, past the two early returns nothing is open),
  `KillInv` says that kill ids to come are unused. Without `SendInv`, `PostOrder`
  could send an id again and `QueryOrder` could close a row the tick is about
  to send. `OneUnresolved`, `RowsFirst`, `ClosedRowsTrue` follow from it.
* `ClosedForever`, `NoResend`: action properties, step by step under the invariant.
* `RefinesLedger`: every step of `LiveEngine` is a step of `OrderLedger` or leaves
  the rows and fates of the ticks' orders alone.
* `PositionIsKnown`, `OnePositionOnly` under `OnlyFills` (no order expires unfilled)
  and `BooksSurvive` (no crash between closing a row and booking it): the two ways
  in which section 5 shows the statements to be false. Account and trade differ
  while a fill is on its way to the database, so `PositionInv` says by how much:
  the account is what the trade will be once the one unbooked order is booked
  (`Agree`), or a SELL of the kill switch has taken it (`KillFlat`). `EntryAlone` is
  the part that keeps a second BUY away: an entry that is decided, sent or
  unresolved is one without a trade.
* `OneLateEntry` under no hypothesis: a late entry is one that was decided while
  the engine ran, and until it has left no other can be decided (`LateInv`).

**Job queue** (`JobQueueProofs`): `TypeCorrect`, `NoJobLeftRunning`, `OutcomesAreTrue`.
`WorkInv` says what the worker already made true of the job it holds, `AttemptInv`
counts: a job has at most one result for each life of the worker, and one that
can still run has none from this life. Without the count, saving twice in one
life is not excluded.

**Stores** (`StoresProofs`).

* `ShownIsCurrent`: `CacheSpec => []CacheInv`. The invariant adds that nobody holds or
  was told of more than the database contains, and `BuildsAreValid`: while the
  generation is the one a build began with, the build contains every write that
  was answered or is about to be, since such a write was committed before the
  build began. The lock does not appear in it: it only keeps several requests
  from building at once.
* `FileIsSound`, `CandlesStay`: any number of processes may save. Names and inodes
  are the heart of it: `OwnsTemp` says that until two saves overlap the temporary
  inode belongs to the one process that saves and holds exactly its buffer when it
  is renamed; `GoodSync` that a buffer has no hole, and covers the file a reader
  sees unless it was overtaken. That an unused inode is always left is a counting
  argument (`UnusedIsFree`).

**Paper engine** (`PaperEngineProofs`). `SessionIInv` says what a transaction under
way still knows of the rows it read (`ReadStill`): if the last candle is the one
it saw, the signal and the trade are too, but for what a stop closed. The unique
columns do the rest: a commit for another last candle is undone.

* `TypeCorrect` under no hypothesis.
* `EntriesAtTheNextOpen`, `OneOpenPosition` for any workers, when no reset is asked
  for: a reset deletes the rows on which the unique columns rest. `OneOpenWithReset`
  is the other case: any request, one worker.
* `ImplementsSession`: `Spec => SessionSpec`, and `BalancesAddUp`, when the owner pauses
  and resumes only. A stop or reset in the window of a commit breaks them (section
  5). `BalanceAgrees` is not inductive (a sale moves an open trade into the sum), so
  `Balanced` adds up what every trade, the open one too, has brought so far.

**Notifications, watchdog** (`WatchdogProofs`): `DeliveredInOrder` with `BatchOldest` (a
message in the batch has no older one outside it that the owner could still get)
and `MarksTold`; the action property `RepeatsRarely` with `Remembers`: the setting
is the last alert, and a problem it does not know was never told or went away.

**Trainer** (`TrainerProofs`): `RunsAndRevocations` and `EvidenceFirst` from one invariant,
whose heart is `Knows`: what a process read in its first step still holds when it
writes in its second, for every pair of steps. `ReviewsKeepTheNewest` with `WillTrim`:
while a review can still stop all it listed, what it has not listed is no more
than is kept.

**A trade** (`TradeOrdersProofs`), for any size, any number of orders and of deaths.

* `TypeCorrect`, `AmountsAgree`. `Base` relates each row to its order (a row that says
  the order ended is what the exchange says of it), and at most one entry since
  the trade began bought something or still can (`OneIn`). `AmountsAgree` needs no
  hypothesis about crashes: whatever was lost and found again, once every row is up
  to date the amount is the sum of the rows.
* `NothingLeftBehind`, `NoTradeStranded` need more: `Exact` says that while no order is
  lost, at every step and not only in rest, the amount is exactly the net of the
  ended rows, an open order that sells fits it, and a trade that ended is flat;
  `GoesOn` that an open trade has an order, an amount, or a step under way. `Exact`
  is conditional on `Known` (the only order that may be missing from the rows is
  the one just sent), since a crash breaks it; each action has a lemma, and `Recover`, the
  step that finds lost orders, is shown to be disabled while none is lost.
* `OneSellerOnly`: `Spec => [](EachKnown => OneSeller)`. The bot does not keep a second
  order from standing beside a stop it failed to cancel, the exchange does: what
  an open stop, or an exit, still has to sell fits what is held and is all of what
  is free to sell (`ClaimedIn`, `OneLive`, `HeldAndClaimed`), so a second order is
  refused. That `OneSeller` holds with lost exits and stops too is only checked by
  TLC. Under `TradeReload`, which breaks the amount, nothing is proved.
* `ImplementsTrade`: `Spec => TradeSpec`, every step of the bot and of the exchange is a
  step of `TradeLife` or leaves its five variables alone. This needs more than
  `TradeInv`: once the row is gone the rows say nothing, so `FitIn` says of the
  exchange's orders themselves that one entry bought, that no more was sold, and
  that an order which still sells is the only one, fits what is held and has no
  entry working beside it. The proof has two halves: `HowOrders` (a step leaves the
  orders quiet, fills one or sends one) with `FilledSum`, `QuietSums` and `AddedSum` for
  what that does to the sums, and `HowLife` (which steps move the row, and with
  what known of the orders). `MapsStep` joins them.

Induction. The library's induction theorems take an operator, which the provers
cannot instantiate, so `NumberFacts` states induction over numbers and over the
subsets of a finite set as facts about sets (`NumberInduction`, `SubsetInduction`,
proved from the least counterexample). Sums, and the recursive function in
`AllUpdated`, are reasoned about with those.

Only model-checked: liveness (`UnresolvedResolves`, `StopActs`, `JobsEnd`, `CatchesUp`,
`NewestArrives`, `ProblemTold`, `EverythingSettles`, `RunsFinish`, `Unwinds`), because fairness
and ENABLED are outside the prover, and the two counterexample runs, which need an
instance and not a theorem.

## 5. Where code and documentation disagree

Shown by a run:

* `LiveLostFill`: a crash between `engine.py:136` and `:137` (or `:101` and `:103`)
  loses the booking of a fill for good.
* `TradeReload`: after an exit of exactly half of a trade, `/reload_trade`
  (`freqtrade/rpc/rpc.py:1013`) reads the same exit again, finds its amount equal to
  what is left (`freqtrade/persistence/trade_model.py:951`) and closes the trade with
  the rest still held, though "only coming out to 0 can force a close" (`:954`).

Met while modelling, and excluded from the properties above where they would
break them; the model has the behaviour, no run states it. The live engine:

* `s.merge(auth)` (`live/engine.py:166`) undoes a revocation committed during the tick.
* Without an authorization the tick returns (`:164`) before the stop check, though
  it means to "keep managing exits" (`:154`).
* The stop is compared with the price of the authorized pair and sells that pair,
  not the pair of the open trade (`:178-185`).
* The kill switch sends its SELL before a row exists (`engine.py:280`, against `:5`),
  and its recording fails if the tick closed the trade first (`:284`).
* A BUY past its risk check leaves after a kill switch committed the halt
  (`:232`); `LateEntryBound` bounds this to one.
* An order that EXPIRED unfilled is booked like a fill (`:116`): the trade is closed
  and a second position can be bought.
* `run_live` checks the first key of an environment only (`worker.py:207`).
* A backtest saved just before a crash is run again, hits the unique result and
  turns to error (`services.py:215`); a training closed just before a crash is
  opened again (`services.py:222`).
* A paper session stopped between the read and the commit of a candle can keep
  the position that candle opened, and a halt or a strategy error can turn it
  from stopped to halted (`paper/engine.py:106`, `:139`). A reset in the same
  window can lose or keep a trade that the restored balance does not know.
* Cancelling a queued training leaves its record queued (`api/app.py:431`), and the
  trainer waits for it and never runs challengers again (`worker.py:149`).

Snapshot cache, candle store, notifications:

* A write between the comparison of the generation and the store (`api/app.py:246-247`)
  leaves a snapshot from before the write cached until `SNAPSHOT_TTL`; a write between
  the check and the return (`:241-242`) makes the answer null.
* Two processes that save the same dataset share one `.tmp` (`market/store.py:78-80`):
  the file can be a mixture, one `replace` can fail, and the later save can drop
  candles the earlier one had added.
* "Tizim yana normal ishlayapti" is sent when one problem ends although another
  one lasts (`watchdog.py:63-66`); a lagging session hides behind a current one of
  the same timeframe (`:38`).
* A message Telegram refuses for good holds up every later one (`notify/service.py:83`);
  a row deleted while its batch is sent undoes the marks, and the batch is sent again.

Trainer and approval:

* Two requests at once both start an evaluation run (`evaluation/report.py:34`), and
  two authorizations at once stay active together (`evaluation/approval.py:76`).
* The challenger review stops sessions by strategy and timeframe, also those of an
  evaluation run (`analysis.py:233`), which are "isolated" (`evaluation/report.py:31`). One
  listed session that the owner stopped meanwhile ends the list (`analysis.py:247`).

The freqtrade bot:

* `replace_order_failed` drops a trade although its order may still be live, after a
  cancellation that was refused (`freqtradebot.py:1684`, against "Simply bailing here is
  the only safe way" in `handle_cancel_enter`).
* At startup an entry that ended without a fill is recorded and not acted on: the
  trade stays open with nothing in it (`:403`).
* A stop that was placed and whose row was lost in a crash holds the coins, and no
  exit can be placed while the balance looks complete.
* The amount of an exit is computed before a similar order is canceled, and a
  market exit of what remains of an order takes the whole trade when that is 0
  (`emergency_exit` with `safe_remaining`, and `handle_replace_order`, `:1797-1807`).
* A stop whose cancellation fails, or is still open in its answer, stays at the
  exchange while its trade's exit is tried (`:1103-1125`); only the balance keeps the
  exit from selling twice.
* A reload between an order and its row writes the row first: the commit of the
  thread that sent it breaks the unique constraint (`trade_model.py:83-85`), which
  nothing catches, and the bot dies.

## 6. Plan

Done: `OrderLedger`, `LiveEngine`, `JobQueue`, `SimCore`, `PaperSession`, `PaperEngine`,
`SnapshotCache`, `CandleStore`, `Outbox`, `Watchdog`, `Evaluation`, `Challengers`,
`TradeLife`, `TradeOrders`, and the proofs of all their safety properties.

Next, in this order:

1. `EntrySlots`: `max_open_trades` between the main loop and forced entries
   (`freqtrade/rpc/rpc.py:1155`).
2. `Seed`: the retry of an insertion that lost the race (`services.py:32-42`).
3. `RiskRules`: `portfolio_breaches` and `entry_violations` against a reference
   definition at their boundaries.

Not modelled, and not planned: numeric code (indicators, models, metrics,
optimizer, backtesting, hyperopt), rendering, external programs, migrations,
authentication, and of the freqtrade fork its exchange adapters, data handling,
configuration, messengers, futures and position adjustment. That is most of the
repository by lines; it holds little state that survives a step.
