# TLA+ models of td-sandboxed

td-sandboxed trades prop-firm accounts through MetaTrader 5.  A Python engine
(`services/trading-engine`) runs one Nautilus trading node per account, checks
every order against compliance rules and an exposure gate, and talks over
ZeroMQ to a Rust bridge (`services/mt5-bridge`) that serves the MT5 expert
advisors.  Redis holds account status, counters, locks and snapshots;
TimescaleDB holds trades, the audit trail and candles.  A Go service sends
notifications to Telegram and a Go client fetches TradingView data.

This directory models the parts in which several actors, failures or timeouts
meet and the decisions orders depend on, checks them with TLC and proves the
safety properties with TLAPS.

## Inventory

In the table T is `services/trading-engine/src`.

| Part | State | Operations | What is hard | What makes it correct |
| --- | --- | --- | --- | --- |
| Order path and exposure gate (`T/execution`, `T/engine/clients`, `T/adapters/zmq_adapter.py`) | Redis counter per account, tracker positions, pending futures | validate, reserve, send, book, release, emit | coroutines interleave at every await; timeouts race late fills; Redis replies get lost; crash with lots reserved | exposure within the cap; counter neither leaks for good nor is taken by others; one truthful terminal event per order |
| Risk state (`T/accounts/risk_*`, `pnl_*`) | positions, balance, `RiskState` and its copy in Redis, per-account lock | trade, mark, daily reset, load, breach | first uses race, writes fail, a crash between memory and Redis | every trade counted; a breach pauses and blocks |
| Compliance rules, calendar (`T/rules`, `T/calendar`) | rule sets, events | parse, merge overrides, evaluate, refresh | edges of limits and windows; failing sources | a breach is never allowed through; known events are kept |
| Strategies and regime (`T/strategies`, `T/regime`) | indicator memory, hysteresis, scale-out state | signal, size, bracket, scale out, trail | actor and strategy handle a bar in either order; several exits in one bar | justified entries; risk only shrinks |
| Engine process (`T/engine/lifecycle.py`, `T/state/crash_recovery.py`, `graceful_shutdown.py`) | lock, clean flag, snapshots in Redis; events and tasks | startup, heartbeat, shutdown sequence | two instances; crash at any step; stalls beyond the lock's TTL; two shutdown events | one trader at a time; every crash noticed; shutdown ends |
| Account lifecycle and recovery (`T/accounts/account_manager.py`, `T/state/position_reconciler.py`, `recovery_orchestrator.py`, `trading_resumer.py`) | status in Redis, loop task, snapshots, reconciliation results | account commands, loop, reconcile, resume | check and write are two commands; queries time out; partial results | halted accounts stop; accounts resume only when all are reconciled |
| Live orchestrator (`T/engine/live_orchestrator.py`) | sessions, node tasks | start, isolate, reload, stop | node death and cancellation during other operations | no node without an owner; stop ends |
| Bar feed (`T/engine/clients/redis_data_client.py`, `T/adapters/redis_adapter.py`) | pub/sub, subscriptions, listener | connect, listen, subscribe, reconnect | a lost connection under a listener; calls that cross a reconnection | no bar of a live feed lost; subscriptions as wanted |
| MT5 bridge (`services/mt5-bridge`) and connections (`T/adapters/mt5_connection_manager.py`) | bounded order queue, event loop; adapters, tasks | order, heartbeat, result; start, reconnect, stop | one queue for all accounts; reconnection tasks outlive a stop | orders reach their own EA once; connections attended |
| Emergency stop (`T/state/emergency_stop_handler.py`, bot commands) | bot flags, pub/sub | request, flatten, pause | partial failure, lost messages | no account left out |
| Orders and records (`T/orders`, `T/audit`, `T/snapshots`) | order states, buffers, queues, daily tasks | execute, book, log, flush, snapshot | overlapping closes, crossing flushes, full queues, failing inserts | fills and rows accounted for |
| Notification service (Go) | subscriber, retry queue | receive, enqueue, retry | a lock held while sending | alerts delivered, queued or accounted for |
| TradingView client (Go, `services/tv-api`) | socket, queue, sessions, candle store | connect, send, reconnect, fetch, batch | callbacks during reconnection; tokens without content | packets in order; fetches complete; candles accounted for |
| Backtesting, reports, CLI, configuration, scripts | per-run data | compute, print | arithmetic | (batch code without concurrency) |

## Modules

| Module | Models | Run |
| --- | --- | --- |
| `ExposureGate` | one account's concurrent `send_order_and_wait` coroutines, the Redis counter and its Lua scripts, MT5's answers, booking of fills, terminal events | `gate_faults`, `gate_stale_snapshot` |
| `EngineProcess` | engine processes sharing one Redis: startup, heartbeat, run loop, graceful shutdown | `engine_crash`, `engine_stalls`, `engine_lock_loss_graceful` |
| `AccountLifecycle` | status, commands, account loop, resumption | `account_commands` |
| `CrashRecovery` | snapshots hot and cold, position query, comparison, resolutions, P&L, resumption of two accounts | `account_commands` |
| `LiveSessions` | live sessions, node run tasks and callbacks, crash isolation, reload, stop | `sessions_reload`, `sessions_stop` |
| `LiveTrading` | `LiveSessions` and an instance of `EmergencyStop` on the same status and positions, with nodes that trade | `trading_paused` |
| `RiskControl` | `PnLTracker`, risk registry, persistence, breach handling of one account | `risk_rules_strategies` |
| `CalendarService` | the refresh loop and its sources | `risk_rules_strategies` |
| `ComplianceRules`, `RuleChecks` | rule types, overrides, rule engine, blackout lookup as operators; what they promise | `risk_rules_strategies` |
| `RegimeDetection`, `Strategies`, `BracketTrade` | regime actor; signals; sizing, brackets, scale-out and trailing against the simulated venue | `risk_rules_strategies` |
| `OrderExecution` (over `BufferedWriter`) | `OrderExecutionService`, position tracker, trades and their rows | `records` |
| `BufferedWriter`, `RowStore` | the batched database writers, and what they promise | `records` |
| `AuditQueue`, `DailySnapshots`, `CandleStore` | `AuditWriter`; daily snapshots and the session clock; tv-api's `TimescaleStore` | `records` |
| `Mt5Bridge`, `Mt5Connections` | the bridge's event loop; connection manager and adapters of one account | `links` |
| `EmergencyStop`, `Notifications` | bot commands, Redis channel, handler; subscriber, router, retry queue | `links` |
| `TvClient`, `ChartSession`, `HistoryFetch` | TradingView client; chart and replay sessions; `backtest-fetch` | `links` |
| `BarFeed` | `RedisDataClient` and `RedisAdapter` | `links` |
| `Numbered` | numbered items in their order, for `TvClient` and `BarFeed` | |
| `ExposureGateProofs`, `EngineProcessProofs`, `AccountLifecycleProofs`, `LiveSessionsProofs`, `RiskProofs` | theorems about the module of the name (`AccountLifecycleProofs` also about `CrashRecovery`, `RiskProofs` about the components of the `risk_rules_strategies` run) | TLAPS |
| `LinksProofs`, `RecordsProofs` | theorems about the components of the `links` and `records` runs | TLAPS |
| `SequenceFacts` | lemmas on queues, induction, folds and sorting that these use | TLAPS |

`MCRisk`, `MCAccounts`, `MCRecords` and `MCLinks` put components side by side that
share no state.  A variable `focus`, chosen in the initial state, says which one a
behaviour moves, so the state space is the sum of the components' and not their
product; fairness is that of the component in focus.  Components that do share
state are composed: `OrderExecution` extends `BufferedWriter`, `BracketTrade` extends
`Strategies` and `RegimeDetection`, `LiveTrading` joins sessions and emergency stop.

Definitions introduced as "Mutant" or "a plausible slip" are deliberately wrong
variants of the definition that follows.  They are part of no specification;
substituting one for its original must break the property it is listed with in
PROJECT.json.

### ExposureGate

`pc[o]` is the await at which the coroutine of order `o` is suspended; one
action is the code between two awaits, because a coroutine runs uninterrupted
between them.  A Redis command and the code that consumes its reply are one
step.  `cap[o]` is `max_total_for_reserve`, computed from the snapshot before
the await on Redis.  `held[o]` says that the local `reservation` is set,
`reserved` is `account:{id}:reserved_lots`, `positions` the tracker's position
book, `pending` `ZmqAdapter._pending_orders`, `mt5[o]` the order's fate at the
terminal.  Two history variables: `leaked` are reservations that stay in the
counter though nobody will release them (a reply lost, a cancellation, a
crash), `unguarded` the orders whose lots the gate did not account for (sent
without a reservation, granted on a snapshot that missed open lots, or given up
while open at MT5).  An account without a risk state shows no lots at validation
(`LotsSeen`, with the fault "ungated").  Volumes are integers in units of 0.01 lot; the Lua scripts
compute in doubles, whose rounding is below a unit.

Accounts share no key, tracker or cap on this path, so one account is modelled.
`Faults` selects the disturbances.  `Expire` is bound to `Held = {}`: the key's
time to live (900 s) is renewed by each reserve and release, and a reservation is
held for at most the 5 s send timeout and two Redis commands.

### EngineProcess

A process `e` walks through `CrashRecoveryManager.startup_sequence` one Redis
command at a time, then `EngineLifecycle.run`.  `Graceful` are the processes
with `GracefulShutdown`, `Sharing` those whose `AccountManager` was given the
engine's own Redis client.  Time is not modelled as a number: the lock lives for
60 s and is refreshed every 15 s, and startup and the shutdown sequence are a few
Redis commands each.  So the lock expires only when each process that keeps it
alive (a heartbeat, a sequence under way, a startup that was under way at the last
refresh, `early`) is stalled or gone.  A stall (`Stalling`) is a pause longer than
that, or the loss of Redis: each Redis command of such a process may also raise.
Before the wait of `run` this ends the process (`StartRaises`); in the shutdown
sequence the steps catch it, except the two commands at the end, where `initiate`
gives up and reports a failure.  `StopNodes` is `LiveOrchestrator.stop`, which may
wait for ever (`StopCompletes` of `LiveSessions` shows how) and is therefore given no
fairness.  `dirty` is history: the last process that traded ended without setting the
clean flag.

### AccountLifecycle and CrashRecovery

Commands are two steps, the check (`Read`) and the write (`Write`), since nothing
locks the status in between.  `task` is the account loop of the running engine,
`engine` how far `TradingResumer` is with the account.

In `CrashRecovery` `mt5`, `book`, `hot` and `cold` are the positions at MT5, in the
tracker, in the Redis snapshot and in the newest database row; `phase` and `todo`
walk through `RecoveryOrchestrator`.  A position is [sym, side, vol] with volumes in
thousandths of a lot, so that the comparison's tolerance is 1.  A list may hold
several positions of a symbol (a hedging account), in any order.  Snapshots may be
missing or corrupt, a query may fail, time out or answer.  A Redis command that raises,
in the check of a snapshot, the save of a reconciled one or the alert about it, ends
`RecoveryOrchestrator.run` and with it the process (`RedisRaises`).

### RiskControl, CalendarService, ComplianceRules

A task of `RiskControl` is one call of a public operation, from await to await;
`queue` is the account's `asyncio.Lock`, `mem` the registered manager's state,
`stored` its copy in Redis.  `spoiled` is history: the reasons for which memory may
differ from Redis or from the trades applied (a failed write, a manager replaced by a
second one, a crash).  `CalendarService` keeps each `start()` with its loop as a
process.  `ComplianceRules` is functions only: percentages are ratios of integers, a
specification and a context are functions from field names to values in which fields
may be missing.  `RuleChecks` compares them with reference definitions.

### RegimeDetection, Strategies, BracketTrade

A bar carries what the thresholds of an indicator tell apart, not prices of an
instrument.  The actor and the strategy handle a bar in either order.  The venue is
that of the backtests: it fills market orders at the bar's close, nets positions, and
cancels the other leg.  The live client refuses order lists
(zmq_execution_client.py:228-237), so brackets are traded only there.  A configuration
is what its validators let through: `ValidIndicators` and `ValidConfig` are their
conditions on the fields kept (periods, close fraction, safety target, ADX gate are not),
and the initial states range over the configurations that satisfy them.
`HasRegime` and `AttachRegime` are the optional regime block of the backtest's
configuration, which decides whether an actor is attached and a strategy is gated.
Every indicator has a value when the warm-up is over, and no feature is NaN.

### OrderExecution, BufferedWriter, AuditQueue, DailySnapshots, CandleStore

`BufferedWriter` is the design shared by three writers: a buffer, a lock held only to
swap it, flushes by timer, full batch, stop and caller.  `RowStore` is what callers
are promised; `ImplementsStore` is the refinement, with the rows in the buffer or in
a flush as the pending ones.  An insert may raise before or after its commit; in the
second case the rows are in the table and in the buffer again, and if they carry their
key (`Keyed`: trades and violations) inserting them again raises for ever.  `flush[f]` says where flush `f` is and which batch it carries.
`OrderExecution` keeps one account and symbol; `net` is what MT5 holds, `untracked`
the fills the service did not book, `stranded` the positions that a close created for
an earlier position took out of the books, with that close, and `missedExits` the
exits whose UPDATE found no row.  `AuditQueue` follows the entries through queue,
batch, insert and leftover; `discarded` are those the code gives up.  `LogTrade`
and `LogSystemEvent` queue their entry, waiting for room, or insert it themselves;
`RegimeAuditHook` must not wait, and drops its entry at a full queue.
`DailySnapshots` counts UTC hours with days of 3; a session has an offset and a
reset hour; daylight saving is left out.  A service started without accounts waits for
the default session's reset.  In `CandleStore` a save carries the
version of the candle's values; `unsaved` records each save given up and why.

### Mt5Bridge and Mt5Connections

`loop` is what the bridge's event loop is doing, `hand` the order it has taken from a
channel end.  A full queue puts the loop in `<<"push">>`, which no action leaves:
`order_tx.send` can only be released by `handle_heartbeat_message`, which the same
loop would have to call.  In `Mt5Connections` starting a connection is one step
(`connect` and `disconnect` do not wait); sleeps and cancellations are separate
steps.  `loose` is history: the adapters nobody attends and the way each got loose.

### LiveSessions

An action is the code between two awaits.  `pc["main"]` is the coroutine of
`start` and `stop`, `pc["listener"]` that of `_phase_listen_loop`; `on[p]` is the
session it tears down and `task[p]` says that the local `run_task` is set.
`registered` is `_sessions`, `tracked` `_node_run_tasks`, `state`
`LiveAccountSession.state`, and `isolation[n]` the task that the crash of node `n`
created.  The end of a run task and its done callback are two steps, because
asyncio queues the callback.  `lost` is history: nodes that nobody will stop any
more.  There are two ways into it, both in the code: the reload is cancelled inside
`stop_async`, or the callback of an ended node, which finds its task by account id,
untracks the node that replaced it.  `NodesOwned` says that there is no other way.
The service bundle that `start` and `stop` also handle, and the health key, have no
influence on the sessions and are left out.

### EmergencyStop and LiveTrading

The handler is a sequential program (`handler`, `current`, `left`, `found`) that
shares the account status and the positions with everyone.  A closed position is one
less in `open`; a close order for a position that is gone opens one.  A stop command
whose reply is lost is delivered but leaves the bot's flag unset.  `LiveTrading`
extends `LiveSessions` and instantiates `EmergencyStop` under the name `E`: they share
`status`, the nodes of the sessions do what `TradeOf` allows, and
`EngineLifecycle.run` orders their starts and stops.

### Notifications, TvClient, ChartSession, HistoryFetch, BarFeed

`Notifications` has both notifiers of the code: the bot, which main wires, and the
`MessageQueue` of `internal/queue`.  A pass of `processMessages` holds the queue's lock
through its sends.  `StopService` is the end of main: the context is cancelled and the
queue told to stop, which leaves the alerts in it unsent.  `TvClient` has the receive loop, the send loop and `Close`;
`sentLog`, `queuedLog`, `vanished` and `early` are history, and packets carry the
number of their queueing, which no action looks at.  In `ChartSession` a
handshake is the list of its remaining steps; the lock is free between two of them.  A
packet is built with the session's symbol at hand and queued later; `overtaken` is
history: another handshake created the session anew, or renamed its symbol, while a
`create_series` packet was built and not queued.
`HistoryFetch` assumes a server that answers within the response timeout if it has
older bars, and no live candles for an anchored series; with a slow server two
timeouts in a row end the fetch early.  In `BarFeed` redis-py may reconnect a pub/sub
object by itself or raise the error, and `crossed` are the channels of calls that a
reconnection crossed.  Bars are numbered as they are published.

## Runs

| Run | Result | Bounds |
| --- | --- | --- |
| `gate_faults` | pass: `CounterExact`, `GatedExposure`, `EventsTruthful`, `EveryOrderAnswered`, `CounterDrains` | 2 orders of 1 and 2 units, cap 2; every fault |
| `gate_stale_snapshot` | violation of `CombinedExposureCapped` | the same, no fault |
| `engine_crash` | pass: `LockInv`, `CrashNoticed` | 2 processes (one graceful, one not), relaunched without limit, crashes everywhere |
| `engine_stalls` | pass: `ShutdownCompletes`, `GracefulSetsFlag` | 2 graceful processes, one may stall or lose Redis, the other shares its Redis client |
| `engine_lock_loss_graceful` | violation of `LockLossStops` | 1 graceful process that may stall |
| `account_commands` | pass: `OneLateSignal`, `HaltedLoopEnds`, `ResumedTogether`, `RecoveryEnds`, `SavedMatchesMt5` | 2 concurrent commands, crashes, failing handlers; recovery of 2 accounts, 1 crash, queries MT5 never answers, Redis commands that raise |
| `sessions_reload` | pass: `NodesOwned`, `SessionsSettle` | 1 account, 3 sessions of it, 2 phase changes |
| `sessions_stop` | violation of `StopCompletes` | the same with 2 sessions, 1 phase change |
| `trading_paused` | violation of `PausedStaysFlat` | 1 account, 1 position, 2 sessions |
| `risk_rules_strategies` | pass: `DailyPnlKept`, `BreachHandled`, `CallsReturn`; `CalendarSound`; `RulesSound`; `EntriesJustified`, `RiskShrinks` | 2 calls in flight, 3 in all, 1 fault; 3 refreshes; rules and contexts at their limits, with and without a symbol; 6 bars of two prices, every strategy |
| `records` | pass: `FillsAccounted`; `RowsWritten`, `ImplementsStore`; `AuditAccounted`; `DaysRecorded`; `CandlesAccounted` | 3 orders, and 4 with a writer that neither stops nor fails; batches of 2, 2 extra flushes, 1 failure, before or after the commit; 4 entries in a queue of 2; 2 sessions and the default one, 2 days, started within 2 hours; 4 saves in a channel of 2 |
| `links` | pass: `EachInOnePlace`, `QueuedDelivered`; `LinksOwned`; `EveryAccountHandled`, `StopAnswered`; `AlertsAccounted`; `SentInOrder`, `QueueDrains`; `ChartSound`; `FetchSound`; `FeedServed` | 2 EAs, 3 orders, a queue of 2, losses; 3 adapters, 2 faults; 2 accounts, 2 stops; 2 alerts, 2 retries, a stop of the service; 2 sessions, 2 outages; 2 reconnecting goroutines, packets built and queued in two steps; 4 bars; 2 bars on 2 channels, 2 outages, 2 attempts |

Two orders whose volumes exceed the cap together are the smallest instance in which
a reservation must be refused; the theorems carry the invariants to any number.  Two
processes suffice for every pairwise race on the lock.  Sessions of different
accounts share nothing but the two coroutines, so one account with three sessions (a
node, its successor and the successor's) shows every mix-up of an old node with a
new one.  Three orders of two accounts with a queue of two give a full queue,
re-queueing and overtaking.  Three trades give an entry, its close and a second
close of the same position, two of them in flight with a flush of each kind; a fourth
gives a new position for the second close to take out.  The
queues, channels and batches hold two, so that they are full, partly full and empty
within the number of items.  Six bars are enough for warm-up, two confirmations, an
entry, a scale-out and a trailed stop.  The days of the snapshots are long enough for
the sessions to reset at three different hours and for an account to be added between
two resets.

Deadlock checking is off where the system may stop: a stopped orchestrator, a
service that has been closed, a bound that is used up, the bridge's loop at a full
queue.

## Fairness

Weak fairness is assumed of what an asyncio event loop, the Go scheduler or the
Redis server does of itself: each coroutine, task or goroutine that can run, the timer
of `asyncio.wait_for` (its action is part of the coroutine), key expiry, the end of a
stall.  MT5 owes the order path an answer only when "slow" is not among the faults.  Nobody is obliged
to issue a command, launch a process or send a signal.  In the bridge, strong fairness
of `Heartbeat` and `ReceiveCommand` stands for EAs that keep sending and a
`tokio::select!` that picks ready branches at random.  In the sessions the wait for
`stop_async` ends by its timeout, and a cancelled run task ends; nothing makes a node
stop, crash or end by itself.  Queries and closes of the emergency stop and the position query of
recovery end by their timeouts.  Redis and database calls have no time limit in the code
(`redis_state.py:46`): every liveness property assumes that they are answered or raise.  Nothing makes `LiveOrchestrator.stop` end.  The writers' timer fires and an
insert ends, with or without success.  Of the TradingView server only the answer to a history request is assumed
(`ServerAnswers`); sockets, acknowledgements and outages are not obliged to anything.

## What is proved

Every theorem holds for all values of the constants that satisfy the named
assumptions of its module.  They ask for little: bounds and capacities are natural
numbers (`WriterBounds`, `LinkBounds`, `EmergencyBounds`, `RiskBounds`, `BoundsNat`),
where the code needs it positive ones (`CapacityPositive`, `DayBounds`,
`FeedAttempts`, `RegimeBounds`, `SessionBounds`, `BalanceUnitPositive`), the two limits
percentages (`RiskLimits`); a value that stands for "none" or for a task's own name is not one of
the set's (`NoOrderOutside`, `NothingOutside`, `TicketsApart`, `FlushersApart`); an
order has an account and a row (`AccountOfOrder`, `OrdersWritten`); a session has an
offset and a reset hour within its day (`SessionsKnown`).  `RiskAmounts`, `RuleSamples`,
`TradeSamples` and `BookPositions` give inputs the types they have in the code: an
amount is a number (in Python a `Decimal`, here an integer of the smallest unit), a rule
has a known type, a measured field of a context is a number where it is present, a
position has a symbol, a side and a volume.  `FetchBounds` asks for a positive batch size,
as `parseBacktestFetchFlags` does.

An invariant that a run checks is rarely inductive.  For each theorem the list says
what had to be added.

`ExposureGateProofs`, for every set of orders, volumes, cap and faults:

* `GateInvariant`: `GateInv` is inductive.  `CounterExact` alone is not: a lost
  reply adds lots for an order that must not be counted already, so
  `CoroutineInv` says where an order can be leaked or held; `GatedExposure` needs
  the counter to cover what is held at the moment a reservation is granted.
* `CounterNeverAboveCap`, `CounterAccounted`, `ReservationsCovered`,
  `ExposureBounded`: its consequences.
* `EventsAreTruthful`: a terminal event is computed from an outcome that was set
  earlier, so `OutcomeTold` relates the outcome to what MT5 did with the order, which
  no longer changes once it is answered.

The lemmas on `Lots` (union, adding, removing, monotone) rest on the library's
theorems on cardinality.

`EngineProcessProofs`, for any number of processes, assuming `Undisturbed` (no
stalls, Redis clients not shared; `engine_stalls` and the observations below
show that both are needed):

* `LockInvariant`, `LockExclusive`: `LockExcludes` is made inductive by
  `LockKept`, which says why the lock cannot expire under its holder at each
  place of the code.
* `CrashNotMissed`: `CrashNoticed`, made inductive by `NoticeInv`.

`AccountLifecycleProofs`:

* `AtMostOneLateSignal`, for any number of commands under way.  `LateInv` adds that a
  loop which has made its late call is not about to make another: it would have to
  pass a status check that still reads the halt.
* `AccountsResumeTogether`, for any accounts, snapshots and crashes.  `ResumeInv` adds
  that a recovery which resumes has passed `AllSucceeded`, that no outcome changes
  afterwards, and that it goes through no other accounts than those.
* `ReconciliationSavesMt5`, an action property, for any lists of positions.  If the
  snapshot had two positions of one symbol and side, `_update_position_volume` and
  `_remove_orphan_from_state` treat them as one, and it says only that nothing is saved
  that MT5 does not have; otherwise the saved positions are MT5's.
  `compare_positions` pairs by symbol and takes partners out of a list as it goes, and
  the corrections then edit the snapshot one by one.  The proof follows both loops with
  a one-to-one assignment of the snapshot's entries to MT5's positions (`Placed`, by
  `Stage` of the corrections): orphans are the entries without a partner, unknown
  positions those of MT5 that nobody is assigned to.

`LiveSessionsProofs`, `NodesAreOwned`, for any accounts, sessions and reloads.
`OwnerInv` adds that the registered session is the account's newest, that a tracked
task is the registered session's, that a teardown works on the newest session with the
task taken out of the registry, and that the two coroutines never tear down together.
Without these a launch could meet an older live node, and `stop()` could miss one.

`RiskProofs`:

* `BreachIsHandled`: `BreachInv` gives the amounts their type, says what may be left of a
  call at each of its awaits, and that it owes the account a pause only from its mutation
  to its own check (`Owing`).  While the breach lasts, the fold of `RuleEngine.validate`
  over the rules answers "block" wherever the blocking rule stands.
* `RulesAreSound`, for any rules, contexts, overrides and events, not only the samples
  that the run enumerates: the sort by priority is stable and keeps the rules, the loop
  stops at the first that blocks, and each step of the two binary searches keeps the
  bound between the events that end too early and those that do not.
* `EntriesAreJustified` and `RiskOnlyShrinks` (an action property), for any configurations
  and sequences of bars.  `TradeInv` follows each handler of a bar, the actor's and the
  strategy's in either order: the filter's pending count is the run of equal states at the
  end of the list (`Pending`), the actor has seen as many bars as it has handled, the
  opening range remembers the day it entered on, a bar outside the session leaves no
  bracket, a bracket comes alone and within its budget, and the commands of a bar move the
  stop one way to where the scale-out means it to be (`Climbs`) and reduce the position
  once at most.
* `DailyPnlIsKept`, for any number of overlapping calls.  `RiskInv` adds that nothing is
  written before a manager is registered, and that memory is the state of the last call
  to have begun its write or, when none is writing, to have ended it.
* `CalendarIsSound`, an action property, for any number of starts, any feeds and any
  fallback.  `CalInv` adds that without an overlap of a start and a stop one process
  refreshes at a time, and that it is the loop `stop()` knows of once it has become one.

`LinksProofs`:

* `BridgeKeepsOrders`: the places of `EachInOnePlace` divide the published orders; the
  loop's hands are empty while it waits, and hold only an order of the account it
  answers.
* `ConnectionsOwned`: somebody attends to every registered adapter, not only to a wanted
  connection, or `start_all_connections` would find a dead one and leave it; as long as
  no slip has happened there is at most one task, the registered adapter's.
* `EmergencyStopComplete`: between two accounts all but the current one and those to
  come are paused or reported.
* `QueueKeepsAlerts`: an alert is queued once, and waits in the queue between two
  passes and in the pass during one.
* `HandshakesLeaveASeries`: handshakes undo each other's work, but the one that creates
  the session anew has yet to resolve a symbol and to create a series; so each is there
  or will be, by a handshake that nothing stops (`SymbolComes`, `SeriesComes`).  The symbol
  a built packet names may have been renamed since: a `resolve_symbol` packet that is
  `Stale` does not count as one to come, a `create_series` packet is then overtaken.
* `PacketsSentInOrder`: a packet queued later has a higher number than all that was sent
  or waits, and without an outage the receive loop does not dial again.
* `FetchesAreComplete`, the safety half of `FetchSound` (`FetchComplete`): a token says
  that an answer came, not which one, so `FetchInv` counts the tokens and the answers
  that are due.  At most one token is left over from before a request; therefore two
  comparisons in a row that find the same oldest bar mean that the server has nothing
  older (`StreakMeans`).
* `BarsAreServed`: `FeedInv` follows a subscribe or unsubscribe call through a
  reconnection, since the channels agree with what is wanted only between calls.

`RecordsProofs`:

* `WriterImplementsStore` and `OrdersImplementStore`: every step of the batched writers
  is a step of `RowStore` or a stutter, by themselves and under order execution.  A
  flush commits or drops exactly its batch because no row is in two places
  (`BatchesApart`), and `stop()` overwrites no flush because a running writer has none
  of an earlier stop.
* `FillsAreAccounted`: `OrderInv` follows a trade from its call to its row and `LotsInv`
  the lots.  The sets that are counted are finite and hold only orders whose call is
  over, and the position is in neither.  `OrdersAccountTrades` is the part on trades.
* `AuditKeepsEntries`: an entry is in one of seven places only, and the worker's batch is
  empty when a new one is handed to the insert.
* `CandleSavesAccounted`: what is in the batch is older than what is in the channel, so a
  batch that leaves has nothing in common with what stays.
* `CandlesAreAccounted` adds the values: the versions of a candle are saved in ascending
  order, and the fold of `Inserted` over a batch, with ON CONFLICT DO NOTHING, leaves each
  row at the oldest version that was written (`RowsOldest`).
* `DaysAreRecorded`: a task sleeps until the next reset of its session, resets are a day
  apart, and a row stays right because its day is over.  The clock's integer division is
  the subject of the lemmas before it.

`SequenceFacts` holds what these proofs share: what the operations on a queue do to its
elements and their order; induction, derived from the library's fact that the order of
the natural numbers is well-founded; that a fold over a finite set or a sequence has the
value its steps lead to; ranks and the stable sort.  The library's induction theorems
take an operator as a parameter, which the provers cannot instantiate, so induction is
stated for a set of numbers and each loop of the code is followed by a lemma of its own.

Every safety property that a run expects to pass is thus a theorem.  Only model-checked
are the properties that something happens: `EveryOrderAnswered`, `CounterDrains`,
`ShutdownCompletes`, `GracefulSetsFlag`, `HaltedLoopEnds`, `RecoveryEnds`,
`SessionsSettle`, `CallsReturn`, `RowsWritten`, `QueuedDelivered`, `StopAnswered`,
`QueueDrains` and the second half of `FetchSound` (`FetchEnds`).  Liveness under fairness
needs `ENABLED`, which the prover does not support.

## Findings

Each violation run documents a disagreement between a comment or log message and
the code: the stale realized snapshot, the lost lock nobody acts on under
`GracefulShutdown`, the cancellation of the listener that a teardown swallows, so that
`stop()` never returns, and the paused account whose node goes on trading.

Observed in the models or while writing them, without a run of their own:

Order path and process
* `PnLTrackerRegistry.get_or_create` awaits between lookup and registration, so
  two first fills leave one tracker with one position.
* A send timeout emits `OrderRejected` for an order MT5 may still fill; the late
  result finds no future.  A partial fill is reported the same way.
* `refresh_process_lock` and `release_process_lock` do not compare the lock's
  value (crash_recovery.py:228): after a stall two processes can trade.
* `AccountManager.shutdown` closes Redis in the first step of the graceful
  sequence; if the client is shared the clean flag cannot be written.  Any other Redis
  error at the flag has the same effect: `initiate` gives up (graceful_shutdown.py:467-477),
  and the next start sees a crash.
* No Redis client sets a time limit (redis_state.py:46), so a connection that hangs holds
  up startup, recovery and shutdown alike.
* `run` waits for `LiveOrchestrator.stop`, which may not return (`sessions_stop`).
* An account without a risk state is validated as if it had no lots
  (validated_adapter.py:389-412).
* The live nodes are stopped after the graceful sequence, so orders can be sent
  after the wait for pending orders.
* A restart that sees the dead process's lock just before it expires, with no
  snapshot written, misses the stale heartbeat and does not enter recovery.

Accounts, sessions and recovery
* Commands check and write the status in two steps (account_manager.py:519): a resume
  that checked before the loop failed overwrites the error, and a pause issued while
  `TradingResumer` spawns the loop (:288) is overwritten by "active".
* `start_account` and `resume_account` write the status only (:526); nothing spawns a
  loop, and nothing starts the MT5 connection that :114 announces.
* A Redis error while one account's snapshot is checked or saved, or while the alert about
  it is published, ends the recovery of all accounts and the start of the engine.
* With two positions of a symbol and side in a snapshot, `_update_position_volume`
  (position_reconciler.py:899) gives both the same volume and `_remove_orphan_from_state`
  removes both; the account counts as reconciled.
* A corrupt snapshot counts as a successful reconciliation (position_reconciler.py:979)
  and the P&L recalculation's correction is not stored (daily_pnl_recalculator.py:390).
* The done callback of an ended node can untrack, and the crash isolation of a
  crashed one can mark FAILED, the node that a reload has put in its place.
* A phase change published before the listener has subscribed is lost
  (live_orchestrator.py:219).
* A `RedisDataClient` whose connection is lost stops delivering bars, and nothing
  notices: the task is awaited only by `_disconnect`.  `RedisAdapter.listen_bars` ends
  at the first connect that fails, whatever `max_reconnect_attempts` says.  Nothing in
  the repository publishes `bars:*`.

MT5
* The bridge's loop stops for good when it fills its own queue (zmq_server.rs:294), and
  orders of two accounts can be rotated for ever by alternating heartbeats.
* `stop_all_connections` passes over an account that waits to reconnect; an
  adapter in its own backoff and a reconnection task can both connect; the set of pending
  orders that `_recover_pending_orders` looks at (mt5_connection_manager.py:391) is always
  empty by then; an account added before `start_all_connections` keeps a connection that
  is not registered any more.

Emergency stop and notifications
* A failed close is not reported, although the docstring of `_flatten_account` says
  that the error is set "when position query or any close raises".
* A stop command published with no engine subscribed leaves the bot believing that
  the accounts are stopped, and refusing a second `/stop_all`.
* The confirmation goes to `emergency:stop_confirmation`, which the notification
  service does not subscribe to (redis_subscriber.go:114-120), and no service subscribes
  to `emergency:resume`.
* The retrying `MessageQueue` is not the notifier that main.go:53 wires.
* `Enqueue`, which "NEVER blocks" (message_queue.go:60-61), waits while a pass sends to
  Telegram, since the pass holds the lock.  Alerts that are queued when the service stops
  are dropped (message_queue.go:90-95), and the subscriber that ends with the context
  leaves `connected` true (redis_subscriber.go:215-216).

Records and data
* The UPDATE of an exit can run before the entry row is written: the flush before it
  returns at once if another flush has taken the buffer (trade_db_writer.py:248).
* When the answer to a commit is lost, `_flush_buffer` puts a committed batch back
  (trade_db_writer.py:253-267).  Audit rows, which get a new key with each insert, are then
  in the table twice.  A trade or violation keeps its key: every later insert of the batch
  violates it, and everything added since shares the batch, so `TradeDBWriter` writes
  nothing more for the rest of the process (`Clogged`); `ViolationDBWriter` gets rid of the batch
  at its bound.
* Two overlapping closes of one position open the opposite one.  If an entry is filled
  between the two, the second close takes that entry's position out of the books, whatever
  its side (position_tracker.py:158): a short entry leaves MT5 two lots short and the
  tracker flat.
* The first values of a candle that are written stay (ON CONFLICT DO NOTHING), although
  every update is saved; a cancelled context, as at every interrupt, ends the batch
  processor without a flush.
* Account overrides may only tighten a rule (override_merger.py:9-16), but fields that no
  guard knows are taken over whatever they loosen.  The news rule blocks an order without a
  symbol at any event (calendar_models.py:156).
* An empty feed replaces the known calendar events; a strategy registered with no
  regimes admits nothing.
* Packets can go out on a new TradingView connection before its auth token, since
  `isLogged` survives the old one (client.go:529, :541).
* A `create_series` packet is built after the session's lock is released (chart.go:226, :240,
  :429) and queued later (client.go:575-583): if a reconnection creates the session anew in
  between, the packet names a symbol the new session has not resolved.
* A replay `Step` after `Delete` waits for an acknowledgement nobody can send
  (replay.go:292).

## Plan

1. Proofs: no safety property is open; liveness stays with TLC.
2. Modelling still open: several accounts in one bridge connection manager, daylight
   saving in the session clock, the quote sessions of the TradingView client.

## Not modelled

Wording and layout of messages, CLI output, reports and configuration parsing;
database schemas and scripts; the arithmetic of indicators and backtests on
floating-point data, and the dataset, sweep and walk-forward harnesses built on it,
which are batch programs without state between runs (of the backtests only what
`run_backtest` puts together, the checks of its configuration and the venue are in
`Strategies` and `BracketTrade`); the construction of Nautilus
components; HTTP handlers, authentication and the wire format of the TradingView client;
MQL5, Redis and TimescaleDB themselves, which appear as the answers they can give.
