# TLA+ models of rasattrading-mcp

rasattrading-mcp is a local daemon that serves market analysis, alerts and order
execution on Binance to an MCP client. The parts that move money, and the parts that
make them safe across timeouts, crashes and a second process, are modelled here in
TLA+ and checked with TLC. The data paths they rest on are modelled too: the candles, the
stored analyses, the account registry. Every safety property of the passing runs is also
proved with TLAPS for every value of the constants.

Source paths below are relative to `src/src/rasattrading_mcp/`.

## 1. Inventory of the system

The daemon is one asyncio process: every handler is a task, and tasks interleave at
every `await`. The SQLite database has a single writer thread, so a transaction
(`db.write`) is atomic and everything between two awaits is one step.

| Component | State | Operations | What is hard about it | What makes it correct |
|---|---|---|---|---|
| **Order execution** `storage/orders.py`, `data/order_broker.py` | `orders` table (one row per account and idempotency key), per-account `asyncio.Lock`, requests on the network, the exchange's order book | `execute_on_accounts`, `place_order`, `place_oco_order`, `_handle_existing`, `_reconcile_after_timeout`, `reconcile_open_orders` | a placement that times out while the request is in flight; a crash between the insert of the row and the send; concurrent requests with one key; exposure read over two awaits | a key is sent once; every live order has an open row; a final row is true and stays; the exposure cap holds of what the exchange has |
| **Kill switch** `OrderService.close_all_positions`, `_close_one` | the same rows, the balances, `cancel_errors`, the list of sells | cancel local and exchange orders one by one or in bulk, verify, sell what is free, report `closed` | every call can fail or succeed unnoticed; orders fill or arrive during cancellation; a second run meets the sells of the first | `closed = True` is never reported over a live order, a row in doubt or an unsold balance |
| **Risk policy and overrides** `storage/risk_policy.py`, `risk.py` | versioned policy, overrides (`reserved`, `applied`, `cancelled`, `expired`) | `set_risk_policy`, `create_override`, `consume_override`, `_reconcile_stale_overrides`, `reconcile_overrides` | an order carries a policy it read several awaits ago; two orders compete for one override | an override is spent once, on one order, under the policy version it was granted for |
| **Alerts and pending orders** `pa/alarms.py`, `daemon/handlers.py` | `alerts`, `triggered_alerts`, `pending_orders` | triggers with cooldown, approve, reject, claim, settle, `reconcile_pending_executions` | two approvals; approval against rejection; a crash between claim and settlement | executed at most once; the record agrees with its order; a restart finds what a crash left |
| **Daemon lock and lifecycle** `daemon/lock.py`, `daemon/main.py`, `daemon/readiness.py`, `daemon/server.py` | the lock file, the HTTP port, the stage of each process | `acquire`, `update_state`, start-up, `_ownership_watch`, `release` | several processes and a file without compare-and-set | one daemon serves, and it is the one the file names |
| **Account registry, credentials** `storage/accounts.py`, `storage/credentials.py` | the `accounts` table with `trading_lock` and two references, the secrets in the OS keyring | `add_account`, `remove_account`, `enable_real_trading`, `disable_real_trading` for one account or all, `get_credentials` | two stores without a common transaction; removal and flips while an order is under way | no dangling reference, no secret left behind, a live order keeps its account |
| **Emergency stop** `emergency_stop.py`, `storage/emergency_log.py` | append-only log outside the database | cancel and sell without the daemon, reconcile of the log | runs beside a half-dead daemon; a sell that timed out is not logged | no repeated sell, nothing lost from the log |
| **Audit log** `storage/audit.py` | hash chain | append in the caller's transaction | chain across restarts | the chain is unbroken |
| **Market data** `data/pipeline.py`, `klines.py`, `miniticker.py`, `futures.py`, `liquidation_ws.py`, `universe.py`, `binance_client.py` | `candles`, a priority queue, futures in flight, the universe, WebSocket feeds | `get_candles`, `_enqueue`, workers, scheduler, backfill, shutdown | one future shared by tasks that fail or are cancelled; done callbacks that run later; a clock that goes away | no waiter is forgotten, every request ends, every series catches up |
| **Rate limit and clock** `data/rate_limit.py`, `data/clock.py` | weight window, server offset | acquire, resync | window boundaries | the budget is not exceeded |
| **Price action** `pa/analysis.py`, `swings.py`, `obfvg.py`, `liquidity.py`, `vwap_sessions.py`, `worker.py` | three tables of immutable records, `_last_processed` | `analyze`, `_store_payload`, `check_and_process` | analyses of one symbol that finish out of order; a failure between two tables; bars that close during a pass | one current record, which only moves forward; history never changes; a marked bar is stored |
| **Adapter** `adapter/launcher.py`, `transport.py`, `main.py` | none but the lock it read | `ensure_daemon`: clean up, probe, spawn, wait | several adapters and daemons, a file without compare-and-set, a daemon too slow to answer | it ends at the daemon that serves, and does not leave two |
| **Screener, annotations, validation, sizing, registry** | little or none | queries, stateless checks | floating point, I/O | unit-testable |

**Interactions.** `approve_pending_order_handler` calls `execute_on_accounts` with the
key `pending:<order_id>`; `execute_on_accounts` consults the risk policy and consumes an
override before it inserts a row; the kill switch takes the same account lock and uses
`_place_and_record` for its sells; at startup the daemon acquires the lock file, migrates,
runs `reconcile_open_orders`, `reconcile_pending_executions` and `reconcile_overrides`,
binds the port and only then serves. All of them share the `orders` table and the
account's `trading_lock`. The PA worker and the handlers read candles through the kline
service and fetch cold series through its queue; a stored analysis calls the alert service;
adapters meet the daemons only through the lock file and the port.

## 2. Modules

| Module | Models | State ↔ code |
|---|---|---|
| `OrderExecution` | order execution, the exchange and the network around it | `orders[a][k]` is the status column of the row with key `k` of account `a`; `locks` is `OrderService._locks`; `req[t]` is the stack frame of handler `t`, its `pc` the await it stands at; `wire`, `sent`, `book`, `filled` are the network and the exchange |
| `IdempotentExecution` | abstract: what an idempotency key promises on an account | `attempt` is what has become of the order, `answer` what the database says of it |
| `OrderExecutionProofs` | the proofs about it, the refinement included, and about the launcher | |
| `KillSwitch` | one account under `_close_one`, repeatedly | `row`, `book`, `held`, `qty` are the rows, the exchange, the balance and the close orders; `run` is the frame of `_close_one` (targets left, bulk symbols, sells left, `cancel_errors`, `sold_ok`) |
| `KillSwitchProofs` | the proofs about it | |
| `RiskOverride` | policy, overrides and the orders checked against them, one account | `policy`, `version`, `overrides` are the tables; `req` the orders between their read of the policy and their insert |
| `RiskOverrideProofs` | the proofs about it | |
| `PendingApproval` | alerts and the pending-order state machine | `pending`, `started`, `triggered`, `cooldown_until` are columns; `ev` and `ap` the evaluator and approval tasks |
| `PendingApprovalProofs` | the proofs about it | |
| `DaemonLock` | the lock file and the processes | one action per system call on the file; `owner`/`written` are the file, `pc` the stage of a process |
| `AdapterLauncher` | extends it with the adapters that find, remove and start daemons | `adapter[c]` is the frame of `ensure_daemon`: where it is, the lock it read, the probes that failed |
| `EmergencyStop` | the emergency stop on one account, its log, and the copy of the log into the audit at the daemon's start | `run` is the frame of `_stop_one`, `runs` its nonce; `log` is `emergency_stop.log` with lines cut short as `"torn"`; `reconciled` and `audit` are the tables `emergency_reconciled` and `audit_log` |
| `EmergencyStopProofs` | the proofs about it | |
| `AccountRegistry` | accounts, their secrets, what refers to them, an order request, and the kill switch as far as it decides on an order's row | `lock` is `trading_lock` (`"none"` without a row), `refs` the accounts with encrypted columns, `keyring` the other store; `adding`, `removing` are the coroutines between their transaction and their cleanup; `req`, `orders`, `book` the request, its row, its order; `kill` is the call of `close_all_positions` with the trading lock it read, `unverified` the rows it cancelled without the word of the exchange |
| `AccountRegistryProofs` | the proofs about it | |
| `KlineService` | the candles of one timeframe, with clock, universe and budget | a job and its future are one record with the tasks that await it; `mapped` says that `_in_flight` has it; `callbacks` are scheduled done callbacks |
| `AnalysisStore` | the analysis tables and the worker | `rows` are the tables in the order of ids, `to = Null` an open row; `job` the calls of `analyze`; `marker` is `_last_processed`, `target` the bar of the pass |
| `AnalysisStoreProofs` | the proofs about it, the refinement included, and about the kline service | |
| `CurrentRecords` | abstract: what readers of the tables are promised | `current` is the current record of each series |
| `SumTheorems` | lemmas: the largest of a set of numbers, sums over finite sets | |
| `MC*` | the instances for TLC | |

An action is everything between two awaits (between two system calls in `DaemonLock`);
its comment names the function. The `map` of `PROJECT.json` gives the lines. Definitions
that start with `Mutant:` in their comment are deliberately wrong forms of the definition
below them: each property is shown to fail when such a form takes the place of the
original, so no property holds by the shape of the model alone.

### Abstractions

* *Amounts.* Orders have a notional of 1 or 2 units; the cap, the fills and the balances
  are counted in these units. Prices, filters, sizing and validation are the `Preflight`
  step, which may always refuse; what they compute is not modelled.
* *Sides.* In `OrderExecution` every order buys, the side for which the cap matters. In
  `KillSwitch` ordinary orders buy and order lists sell.
* *The exchange* (external) is modelled from how the code uses it: a request may be lost,
  delayed past its timeout, refused or accepted; a query answers with the truth, with
  "unknown order", or fails; an order may fill, expire or be cancelled at any time. A
  status outside `ORDER_STATUSES` is `"OTHER"`, read as UNKNOWN. `query_oco` reads every
  ended list as FILLED, as in the code.
* *A refusal means that no order exists.* `_request` maps every HTTP status of 400 and up
  to ORDER_REJECTED. For a 5xx answer that is an assumption about the exchange, not a
  fact; the hazard list names it.
* *Malformed answers and database errors.* A broker answer that is not JSON leaves the row
  as it was and ends the request; this is not modelled apart from a crash at the same point.
  In the startup reconciles such an exception is modelled: it ends the loop, is logged, and
  the daemon serves with the rest of the rows unvisited (`AbortReconcile` of
  `OrderExecution`, `Serve` of `PendingApproval`; `daemon/main.py:186-202`).
* *Step sizes.* Rounding a balance down to the step of a symbol is the identity
  (`storage/orders.py:1808` in `KillSwitch`, `emergency_stop.py:441-447` in
  `EmergencyStop`): "sold" means sold but for the dust below one step, which stays in the
  account with `closed = True` or `ok = True`.
* *Time.* `PendingApproval` and `RiskOverride` have a clock that ticks between any two
  steps; timeouts elsewhere may fire at any time.
* *The match of an alert against an analysis* is a free choice in `PendingApproval`, as
  is the result of `execute_on_accounts`, restricted to what `OrderExecution` returns.
* *The emergency stop* runs once at a time, dry runs (which change nothing) are left out,
  orders trade as a whole, and a partial fill is a live order. A hash of a log line is its
  position. The lines of one run may be written in any order of its symbols. The exchange
  may still list an order whose cancellation has been logged.

* *Accounts.* An id is drawn once; the keyring backend is modelled, as the DPAPI backend
  keeps everything in the row. The outcome of a sent order is a choice among what
  `OrderExecution` allows, RECONCILE_REQUIRED is like UNKNOWN and PARTIALLY_FILLED like NEW.
  Of the kill switch, `AccountRegistry` has the account it read before it waits for the
  lock, the cancellations (also the local ones and -2011), and its sells, which are order
  requests that start at the insert; what it reports is the matter of `KillSwitch`.
* *Candles.* Bars are numbered; a stored bar is final or partial. One fetch weighs 1 and fits
  the budget; a weight above `max_weight`, for which `acquire` would loop with its lock held
  (`data/rate_limit.py:32-44`), is left out. The
  timeframes outside `kline_intervals`, which are fetched live, and the futures source do
  not use the queue and are left out. asyncio is external: a done callback is scheduled
  when its future is resolved and runs before the result of any later I/O.
* *Analyses.* A payload, with its version, is a free choice; that a symbol has too few
  candles is a bound on its bars. A bar is one unit of time, as is the 1 by which an interval
  ends before the next bar. The local clock as a stand-in for the server's is left out.
* *Adapters.* Each runs `ensure_daemon` once. Only the daemon that wrote the token and has
  the port can answer a probe, and its answer may fail or time out. A daemon beyond the bound on processes dies at once.

**Refinement.** `AnalysisStore` implements `CurrentRecords` under the mapping `Current`,
which reads the open row of each table as `_read_current` does. Its property
`CurrentMovesForward` is the abstract specification: every step of the store, whatever
analyses interleave in it, leaves the current record of a table as it is or replaces that
of one table by one of the same or a later bar.

`OrderExecution` implements `IdempotentExecution`, once for every account and key. The
mapping `Attempt` reads the row, the requests on the wire and ever sent, and the book:
*unused*, *paper*, *recorded*, *underway*, *live*, *gone* (sent, lost for good) or the way
the order ended; `Answer` reads the row, with every open status as *open*. The abstract
specification says in six actions what handlers, locks, timeouts, retries, crashes and the
startup reconcile are there for: the attempt is on record before it is made, it is made
once, and the answer becomes final once the attempt has ended and then says how, REJECTED
being allowed for an order that never came to be. Its form as a property,
`KeyIsOneAttempt`, speaks of all accounts and keys at once.

`AdapterLauncher` is a composition: its steps are those of the adapters and of the daemons,
over the shared file and port.

## 3. Runs

All bounds are CONSTANTS named `Max...` in the configurations.

| Run | Instance | Shows |
|---|---|---|
| `orders_keys` | one account, an ordinary order of notional 2 and an order list of 1 with cap 2 and one override, two handlers, one crash, one flip of the trading lock | safety of order execution, see below |
| `orders_fanout` | one key over two accounts, two handlers | `RequestsFinish`, no deadlock |
| `kill_close` | an order of a request and one without client id, two symbols of which one is unlisted, two runs, one crash, one flip | what `closed = True` means, bulk cancellation included, and `RunEnds` |
| `kill_duplicate` (violation) | an order and an order list of one symbol, two runs | `NoDuplicateSell` fails |
| `kill_sold` (violation) | two orders of one symbol, two runs, one crash | `ClosedMeansSold` fails |
| `approval` | one alert, two windows, two evaluators, two approvals, cooldown 2, four clock values, one crash; evaluators and approvals are interchangeable (symmetry) | triggers and the approval state machine |
| `adapter` | three processes, two adapters, one crash, one stop, slow writers | a second daemon, or one without its file, does not last |
| `risk_override` | two orders, two overrides, three policy versions, two clock values, a crash | overrides |
| `emergency` | one symbol, two orders of other clients, two runs of the script of which one may die, two daemon starts | what `ok = True` means, the log and its copy |
| `analysis` | one symbol with enough candles from the second bar on, the worker and a handler, two tables, two payloads, four bars, one failure or restart | the tables, the marker, the refinement |
| `klines` | one series, a handler and a task of the PA worker, one worker, a budget of one fetch per window, three bars, one fault, the shutdown | waiters, requests, catch-up |
| `accounts` | two accounts, which are interchangeable (symmetry), one request or sell of the kill switch, one call of the kill switch at a time, two faults | the two stores, removal and the kill switch against an order |

**Why the bounds are enough.** In the order service the handlers of one account exclude
each other, so two of them show every pair of steps inside and outside the lock; two keys
of which only one fits show the race for the cap; one crash at any await, followed by the
whole startup, is the case the startup reconcile exists for, and a second crash only finds
rows of the same kinds. Two runs of the kill switch are needed and sufficient for a run to
meet the close order of an earlier one. There is no order list in `kill_close`: a third
order makes the instance too large, and the theorems, which hold for any set of orders and
lists, cover them. One record with two approvals shows the
compare-and-set; two crashes show a restart after a restart. Three processes are the
fewest for two to find the same stale file, and two adapters the fewest for one to remove
what the other's daemon has written. Two runs of the emergency stop let the second
read what the first logged, with a death in between, and two orders of other clients let
one be placed after the first was cancelled; the symbols of a run do not share log keys,
so one of them shows every case but the order of symbols. The series of the analysis tables
are independent, and two tables have a step between them like three; four bars leave room
for two analyses that store in the wrong order with a bar in between. In `klines` one
worker and a budget of one make every other job wait, which is where requests could be
forgotten; priorities are those of the code and the two waiters are of the two kinds the
shutdown treats differently. `klines` and `analysis` have one symbol: a second one makes
`klines` too large to check for liveness with a fault and the shutdown. That one warm
symbol could hide the lag of another, the failure described at `data/klines.py:355-363`,
can therefore not show in `CatchesUp`; the model has the condition of the code, some symbol
of the universe lags, and `RequestsServed` holds for any finite set of symbols. Two faults
let a keyring failure follow a failed transaction; one account and its one request show
every race of a flip, a removal and the kill switch, which visits the accounts one after
the other.
The theorems of section 4 do not depend on any of these bounds.

**Deadlock** is checked in the order runs: with unlimited requests a state without a
successor would be a lock left behind. In the other modules the bounds on runs, time and
processes let the system come to rest, and `CHECK_DEADLOCK FALSE` says so.

**Fairness.** Weak fairness on the steps of a running handler, process or reconcile: the
event loop runs every ready task and every broker call has a timeout, so an `await` ends.
Strong fairness on `AcquireLock`: `asyncio.Lock` wakes its waiters in FIFO order, so a
waiter gets the lock although it is not free all the time. In `klines` the loops that resynchronize the
clock and the universe succeed in the end and a budget window ends; in `analysis` the
candles of a symbol catch up in the end, which is what `klines` shows; that rules out a new
listing with no closed candle at all, which does hold up every pass until it has one
(`pa/worker.py:100-101`). Nothing is assumed
of the exchange, the user, crashes or restarts.

### Properties

*Order execution.* `NoBlindResubmission` (a key is sent once), `LiveOrderTracked` (what is
live or on its way has an open row), `FinalRowAgrees` (a final row is true), `FinalRowsStay`,
`CapRespected` (orders no override let through never commit more than the cap on the
exchange, although the exposure is read in two parts over two awaits), `KeyFreeAtInsert`
(the UNIQUE constraint never fires), `StartupFindsOrphans`, `KeyIsOneAttempt` (the
refinement), `RequestsFinish`.

*Kill switch.* `ClosedLeavesNoneLive`, `ClosedLeavesNoneOpen`, `OwnCloseSold` (what
`closed = True` promises about listed orders, rows and the close orders of the run),
`SellsAfterCancels`, `RunEnds`. `NoDuplicateSell` and `ClosedMeansSold` (nothing that was
free is left) are what the comments promise beyond that, and fail.

*Approval.* `ExecutedOnce`, `PendingAgrees`, `ExecutingOwned`, `DecisionsStay`,
`CooldownKept`.

*Lock and adapters.* `SecondDaemonStops` (of two processes that are up one stops, whatever
the adapters remove), `ServerOwnsLock` (a daemon that serves owns the file in the end, or
stops).

*Overrides.* `ReservedIsCurrent`, `VersionNamesPolicy`, `OverBudgetJustified`, `SpentStays`.

*Emergency stop.* `OkMeansStopped` (what `ok = True` promises about the orders the run
found and the units that were free, although the log may tell it to skip a symbol),
`CancelLogTrue` (an order whose cancellation is logged is off the book: cancelled, or filled
before the bulk cancellation reached it), `PendingSellNotRepeated` (a logged sell
that is still live is not sent again unless the exchange did not answer), `AuditIsPrefix`
(the audit holds the lines of the log, in order, each once, whenever the daemon starts).

*Analyses.* `OpenIsNewest` (one row of a series is open, the newest), `IntervalsCover`
(no row ends before it begins, and no bar is left without a row that is valid at it, in
whatever order bars and revisions are stored), `CurrentMovesForward` (the
refinement), `MarkedBarIsStored` (what the worker marks is in all tables, although an
analysis may end between two and bars close during the pass), `PassesComplete`.

*Candles.* `NoForgottenRequest`, `RequestsEnd`, `CatchesUp`.

*Accounts.* `CredentialsPresent`, `SecretsSwept`, `LiveOrderReachable` (an order that is
live or on its way keeps its account, its credentials and an open row; the orders of
`unverified` are excepted, see the next section).

### Where the code and its documentation disagree

Two runs end in counterexamples; `PROJECT.json` quotes the lines.

* `kill_duplicate`: a failed query for the close order of an earlier run is read as its
  absence, and a second SELL is placed.
* `kill_sold`: when the query for the open close order of an earlier run answers FILLED,
  the run takes that order for its own sale and passes the symbol over
  (`storage/orders.py:1828-1838`), although it has just read that more is free. It reports
  `closed = True` over units it never tried to sell; the comment at 1848 says "only when
  everything was actually sold". The proof of `OwnCloseSold` is where this came to light:
  the property holds of the symbols for which the run placed a close order, and the case
  that could not be closed is the counterexample.

More were met while modelling and have no run of their own.

* *Kill switch.* After -2011 a failed query is read as "no such order"
  (`storage/orders.py:1549-1550`) and the row becomes CANCELED (1654-1656), although the
  order may be filled or live; the code says to use UNKNOWN (1515-1516, 1624-1625).
* *Kill switch on an account switched to paper.* `disable_real_trading` is allowed while
  orders are live. The kill switch then takes the account for a paper account and writes
  CANCELED into the rows of its live orders without asking the exchange
  (`storage/orders.py:1758-1766`), the startup reconcile skips them, and as no open row is
  left `remove_account` deletes the account and its secrets: nobody can find or cancel the
  order any more. The same follows when the account was real for the kill switch and the
  case above wrote CANCELED, or was a paper account when the kill switch read it, before it
  waited for its lock (1470-1476), and real since. The rule at 1624 ("do not silently mark CANCELED") and the one
  of `storage/accounts.py:109-110` (no deletion with open orders) say otherwise.
  `AccountRegistry` has both steps (`CancelLocally`, and the last disjunct of `CancelOne`);
  without the exception for `unverified`, `LiveOrderReachable` fails by them. With it, the
  run and the theorem say that there is no other way to lose a live order.
* *Lock.* Two processes that read the same stale file both acquire it: the second removes
  the file the first has just created (`daemon/lock.py:177-179`, against its lines 3-6).
  An adapter does the same at `adapter/launcher.py:65` and `135`, and at 152 it removes the
  file of a living daemon that is too slow to answer, for instance during its warm-up.
* *Candles.* A bar that was forming when the exchange answered and has closed when `_store`
  runs is stored with its partial values (`data/klines.py:187-202`), against the header of
  the module; it is corrected only by a later fetch. The done callback pops the entry of
  its key whichever future it holds (131), so the deduplication can fail. A request joins
  a job of lower priority or with fewer bars (119-121). A catch-up of a few bars makes a
  cold series warm, so the backfill never fills it. Retries after 429 do not take budget
  again (`data/binance_client.py:64-75`). Cancelling the PA worker cancels futures that
  handlers await too: those requests end with a cancellation.
* *Accounts.* `_removal_reasons` means to leave no orphan rows
  (`storage/accounts.py:109-110`), but an alert of a removed account still triggers pending
  orders, and a request that read the account before it was switched to paper and removed
  inserts its row afterwards, which then stays UNKNOWN. Policies are never deleted, so an
  account that has one cannot be removed. `disable_real_trading` for all accounts stops at
  one that was removed meanwhile (`daemon/handlers.py:776-781`).
* *Alerts.* `_clause_context` (`pa/alarms.py:377-418`) reads the three tables in several
  transactions and can combine analyses of two bars.
* The startup reconcile turns the orphan of a crash into UNKNOWN, and UNKNOWN is summed
  into the exposure as NEW was, although the docstring gives that inflation as the reason
  for the reconcile (`storage/orders.py:1349-1350`).
* A record in `reconcile_required` is never taken up again, although a comment says it can
  be retried (`daemon/handlers.py:30-31`).
* `closed = True` says nothing about units that another order locked while the balances
  were read, for instance a late close order of an earlier run: `OwnCloseSold` and
  `ClosedMeansSold` therefore speak of what was free.
* A sell of the emergency stop that timed out is not logged, so the next run does not ask
  for it: `PendingSellNotRepeated` speaks of logged sells. And once a line of the log is
  cut short, `append` finds a tail without `seq` and raises after each exchange call, so
  every later run that acts ends at its first one.

## 4. Proofs

The eight proof modules are checked by TLAPS to the last leaf, for every value of the
constants that satisfies the named assumptions of the modules: the bounds `Max...` are
natural numbers, the sets that are summed over (keys of an account, orders, symbols) are
finite, the notional of a key is positive, `NoTask` is not a task, an order of a client and
a close order never share an id, and there is at least one alert, symbol, payload and clock
value where a record has to name one. The code justifies each of them; TLC evaluates them
on every instance. Each invariant below was checked by TLC on the instances of section 3
before it was proved.

**`OrderExecutionProofs`** proves `Spec => []IInv` for

    IInv == TypeOK /\ LockDiscipline /\ SendInv /\ HandlerInv /\ StartupInv /\ FinalRowAgrees

and from it type correctness, `NoBlindResubmission`, `FinalRowAgrees`, `LiveOrderTracked`,
`KeyFreeAtInsert`, `LockDiscipline` and the action property `FinalRowsStay`. None of the
safety properties is inductive alone. That a key is sent once needs what the lock holder
knows of its row at each await (`HandlerInv`), which is only stable because nobody else
works on the account (`LockDiscipline`) and no handler runs during startup (`StartupInv`).
That a final row is true needs that a final status, once read from the exchange, is still
the exchange's status when it is written (`Seen`, inside `HandlerInv` and `StartupInv`),
and that nothing of the order is on the wire (`SendInv`). The step proof has one step per
action of `Next`, with one sub-step per conjunct the action can disturb.

On top of it, `CapHolds` proves `CapRespected` from

    CInv == FillInv /\ ExposureInv /\ LoadInv /\ RoomInv

The *load* of an account counts its orders with an open row in full and the others as far
as they are filled, without those an override let through; `LoadInv` bounds it by the cap.
A fill does not change the load, because only an order with an open row can fill
(`LiveOrderTracked`), and a row that becomes final is true, so the load only shrinks then;
it grows by an insert alone. `RoomInv` says that the order between check and insert still
fits, which holds as the handlers of an account exclude each other. The exposure is read
in two parts over two awaits: the open notional stays what it was (`ExposureInv`), and a
fill between the reads is counted twice, never missed, so the check errs on the safe side.
The cap therefore holds for any number of keys and handlers. `OrphansFound` proves
`StartupFindsOrphans` from `OrphanInv`: during the reconcile every row in NEW of a real
account is still listed, is being visited, could not be queried or visited, or has its order
on the exchange.

`KeyImplemented` proves `Spec => Promise(a, k)!Spec` for any account and key, and
`KeysImplemented` the property `KeyIsOneAttempt`. Each action maps to a step of the abstract
specification for the key it works on and to a stutter for every other. A write to a row in
an open status either keeps it open, or is final and true, by the `Seen` of `HandlerInv` and
`StartupInv`, and is a `Publish`; no write meets a final row (`FinalRowsStay`). Only
`SendOrder` sends, from *recorded*, as `NoBlindResubmission` has it. The delicate case is a
REJECTED without an order: it must come from *gone* and never from *recorded*, which is why
`HandlerInv` says that from the await of the answer on the request has been sent.

The last part of the module is about `AdapterLauncher` (instance `Launcher`). The locks that
`OrderExecution` relies on are those of one process, and two daemons can hold the lock file
at once. `OneDaemonServes` proves that nevertheless at most one serves: the daemon at its
HTTP stage is exactly the one that has the port (`PortServed`), through every removal of the
file, crash and step-down. `LauncherTypes` adds that `acquire` and the probes stay within
their numbers of retries (`LoopBound`).

**`RiskOverrideProofs`** proves `Spec => []RInv` for

    RInv == TypeOK /\ ReservedIsCurrent /\ VersionNamesPolicy /\ OverBudgetJustified

and from it those three, `SpentStays` and `AppliedInForce`. The argument: a policy change
raises the version and closes the reserved overrides of older versions in the same
transaction, so a reserved override is always of the version in force; a consumed one was
compared with the version the order carries, and a version names one policy for good.

**`AccountRegistryProofs`** proves `Spec => []AInv` for

    AInv == /\ TypeOK /\ StageInv /\ CredentialsPresent /\ SecretsSwept
            /\ LockInv /\ RequestInv /\ LiveOrderReachable

and from it the three properties of the run `accounts`. `StageInv` says where an account is
between its two stores: a row only after `add_account` is through, none while its cleanup is
still to come, so no cleanup can take the secrets of a row. `RequestInv` says what a request
has from its insert to its answer: an open row, and credentials once it has signed.
`LockInv` says that the kill switch cancels rows only while no request of the account is
between two awaits, so it cannot take the row from under one. The
argument (`CredentialsKept`, `OpenOrderKeeps`): credentials are only lost with the row,
`remove_account` refuses while an open order names the account, and the order row is
written before the request is signed, so nothing sent can lose its account as long as its
row is open; and the row is closed on the word of the exchange, or the order is in
`unverified`.

**`PendingApprovalProofs`** proves `Spec => []PInv` for

    PInv == /\ TypeOK /\ ClaimInv /\ FreshInv /\ ResultInv /\ ClockInv
            /\ ExecutedOnce /\ PendingAgrees /\ ExecutingOwned /\ CooldownKept

and from it the four invariants and the action property of the run `approval`. A claim is
held by one approval and only while the daemon serves (`ClaimInv`); a record that was never
claimed, or is claimed and has not been run, has no order (`FreshInv`): so the compare-and-set
on the status lets one execution through. What an approval is about to write is true of the
order (`ResultInv`), and a claim nobody works on has placed nothing or has not been visited
by the restart, whose reconcile an exception may have ended (`ExecutingOwned`). `ClockInv` is why the cooldown survives evaluators with old clocks: the
column covers every trigger so far and is compared again inside the transaction.

**`AnalysisStoreProofs`** proves `Spec => []AInv` for

    AInv == TypeOK /\ OpenIsNewest /\ BarInv /\ WorkInv /\ MarkerInv

and from it `OpenIsNewest`, `MarkedBarIsStored`, `IntervalsCover`, `HistoryKept` (rows are
only added, and closed once), and that `AnalysisStore`
implements `CurrentRecords` (`CurrentMovesForward`): the initial tables map to no current
record, and a step either appends a row to one series, closing the open one if the bar is
not older, or leaves every current record alone. `WorkInv` says, for each analysis of the
worker's pass, which tables have reached the bar of the pass; it survives bars that close
during the pass, since a series that has reached a bar never falls behind it, and it is what
the worker relies on when it moves the marker (`MarkerInv`). `IntervalsCover` follows the
cases of `_store_payload`: a row is closed at the bar of its successor or one before it
(`SupersedesCovers`), and a row added behind the open one reaches up to bars that an earlier
row covers already (`InsertsCover`).

The last part of the module is about `KlineService` (instance `Klines`, over the same symbols
and bars), for any finite set of symbols. `RequestsServed` proves `NoForgottenRequest` from

    KlineInv == KlineTypes /\ FreeWorkers /\ NoForgottenRequest

A change to all jobs that keeps the symbol and the tasks of each and cancels none keeps every
request served (`Keeps`, `StillServed`): a done callback, which only takes the future out of
the map, and an enqueue, which joins a job in flight or puts a new one in (`EnqueueAllJobs`).
A worker takes a job only when it holds none (`FreeWorkers`), so no job is dropped; one that
settles a job, or the cancellation of the PA worker, ends the tasks that await it.
That the queue stays sorted (`QueueByPriority`) says nothing of the code: it is a check of
`Put`, which stands in for `asyncio.PriorityQueue`, that the place it computes is the one a
priority queue would choose (`BeforePrefix`, `PutSorted`).

**`KillSwitchProofs`** proves `Spec => []KInv` and `Spec => []SInv` for

    KInv == KillTypes /\ FreshInv /\ CurInv /\ TodoInv /\ LiveInv /\ OpenInv /\ SoldInv
    SInv == UnitTypes /\ SaleInv /\ HandInv

`KInv` gives `SellsAfterCancels`, `ClosedLeavesNoneLive` and `ClosedLeavesNoneOpen`: an order
the run saw live, or a row it found open, is over, has its turn still to come, or has left an
entry in `cancel_errors` (`LiveInv`, `OpenInv`), and a close order of the run is over or
counted as not sold (`SoldInv`). `SInv` gives `OwnCloseSold`: while a run sells, what is left
of a symbol is at most what was locked or came later plus what its own close order still
carries. That accounts for units, so it needs the sums of `SumTheorems`.

**`EmergencyStopProofs`** proves the like for the script, with

    EInv == StopTypes /\ FreshInv /\ LogInv /\ ListedInv /\ HandInv
    SInv == UnitTypes /\ SaleInv

`EInv` gives `CancelLogTrue` (a line of the log about an order stays true, since final orders
stay final) and `PendingSellNotRepeated` (the sell at hand follows a query for the last
logged one, or one without an answer); both together give `OkMeansStopped`. `AuditInv` gives
`AuditIsPrefix`: a line that was cut short is the last one, since nothing can be appended
after it, so the whole lines are an interval and the audit is its beginning.

**`SumTheorems`** holds what these proofs need of `Max` and `MapThenSumSet`: the least and
the largest number of a set, and what a sum becomes when an element is removed, a value
changes, the set is split or all values are bounded or zero. The library's induction
theorems take an operator as a parameter, which the provers cannot instantiate; the
inductions, on the cardinality of a set, are carried out as the search for a least
counterexample in a set of numbers (`WFMin`).

**Only model-checked.** Everything that needs fairness (`RequestsFinish`, `RunEnds`,
`SecondDaemonStops`, `ServerOwnsLock`, `PassesComplete`, `RequestsEnd`, `CatchesUp`), as
liveness is outside the prover's reach. Of `KillSwitch`, `EmergencyStop` and `KlineService`
the types are proved as far as the arguments need them (`KillTypes`, `StopTypes`,
`UnitTypes`, `KlineTypes`). The `TypeOK` of the other modules, `LockDiscipline`,
`AppliedInForce`, `HistoryKept`, `OneServer` and `QueueSorted` are proved and not part of a
run.

## 5. Not modelled

Migrations and retention (SQL, run before anything is served); the audit chain (appended
in the caller's transaction by the single writer, so there is nothing to interleave); the
indicators of the price-action engine, the screener and the sizing arithmetic (floating
point over candles and queries); the WebSocket feeds and the futures context (reconnecting
I/O); MCP transport, schemas, envelopes and logging (formatting and I/O); the HTTP server's
dispatch and authentication; two emergency scripts at once. `PROJECT.json` lists every
component with its status.

## 6. Plan

1. A variant of `OrderExecution` in which a gateway error may hide a created order.
2. The feeds and their watchdogs.
3. `PendingApproval` over `IdempotentExecution` in place of the free choice of a result.
