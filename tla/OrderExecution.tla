--------------------------- MODULE OrderExecution ---------------------------
(***************************************************************************)
(* The order execution service of the daemon (storage/orders.py): the      *)
(* requests execute_on_accounts, place_order and place_oco_order, the      *)
(* timeout reconcile, the retry of an idempotency key, the startup         *)
(* reconcile, and the exchange and the network they talk to.               *)
(*                                                                         *)
(* An order is identified by its account and its idempotency key (the      *)
(* UNIQUE constraint of the orders table); its client order id is a        *)
(* function of the key.  Every await of the code ends an action: the       *)
(* exchange, other requests, an operator that flips the trading lock and a *)
(* crash of the daemon interleave there.                                   *)
(***************************************************************************)
EXTENDS Naturals, FiniteSets, FiniteSetsExt

CONSTANTS
    Accounts,       \* account ids
    Keys,           \* idempotency keys
    OcoKeys,        \* the keys used with place_oco_order
    Tasks,          \* concurrent request handlers of the daemon
    NoTask,         \* the value of a free asyncio.Lock
    Notional,       \* notional of the order a key stands for
    Cap,            \* max_aggregate_exposure of the risk policy
    Overrides,      \* one-time overrides reserved per account
    MaxCrashes,     \* bound: daemon crashes
    MaxFlips        \* bound: enable_real_trading / disable_real_trading calls

ASSUME NonEmptyAssumption == Accounts # {} /\ Keys # {}
ASSUME KeysAssumption == IsFiniteSet(Keys)
ASSUME OcoAssumption == OcoKeys \subseteq Keys
ASSUME TaskAssumption == NoTask \notin Tasks
ASSUME NotionalAssumption == Notional \in [Keys -> Nat \ {0}]
ASSUME BoundAssumption == /\ Cap \in Nat
                          /\ Overrides \in Nat
                          /\ MaxCrashes \in Nat
                          /\ MaxFlips \in Nat

VARIABLES
    trading_lock,   \* accounts.trading_lock
    orders,         \* status column of the orders table, "none" without a row
    override,       \* reserved overrides left
    consumed,       \* keys whose order was let through by an override
    locks,          \* OrderService._locks: the holder of each account's lock
    req,            \* the handler state of each task
    open_notional,  \* the open notional a handler read in _current_exposure
    phase,          \* "down", "reconciling" (startup) or "serving"
    stuck,          \* orders the startup reconcile has still to visit
    rec,            \* the order the startup reconcile is working on
    errors,         \* orders the startup reconcile could not query, or never came to
    wire,           \* place requests on the network, per order
    sent,           \* place requests ever sent, per order
    book,           \* the exchange's own status of each order
    filled,         \* executed quantity of each order, in notional units
    crashes, flips

dbVars     == <<trading_lock, orders, override, consumed>>
startVars  == <<phase, stuck, rec, errors>>
daemonVars == <<locks, req, open_notional, startVars>>
netVars    == <<wire, sent>>
exchVars   == <<book, filled>>
boundVars  == <<crashes, flips>>
vars       == <<dbVars, daemonVars, netVars, exchVars, boundVars>>

-----------------------------------------------------------------------------
(* Statuses *)

OpenStatuses  == {"NEW", "PARTIALLY_FILLED", "UNKNOWN"}
LiveStatuses  == {"NEW", "PARTIALLY_FILLED"}
FinalStatuses == {"FILLED", "CANCELED", "EXPIRED", "REJECTED"}

\* data/order_broker.py ORDER_STATUSES.
ORDER_STATUSES == OpenStatuses \cup FinalStatuses

\* A row of the orders table: a broker status, or "paper".
RowStatuses == ORDER_STATUSES \cup {"none", "paper"}

\* What the exchange may report; "OTHER" is any status outside ORDER_STATUSES.
ExchangeStatuses == LiveStatuses \cup FinalStatuses \cup {"OTHER"}

\* A status and an executed quantity that belong together on the exchange.
Consistent(k, s, q) ==
    CASE s = "FILLED"              -> q = Notional[k]
      [] s \in {"NEW", "REJECTED"} -> q = 0
      [] s = "PARTIALLY_FILLED"    -> 0 < q /\ q < Notional[k]
      [] OTHER                     -> q < Notional[k]

\* Mutant: an order that has begun to trade counts as done.
QueryStatusEager(k, s) ==
    IF s = "OTHER" THEN "UNKNOWN"
    ELSE IF s = "PARTIALLY_FILLED" THEN "FILLED"
    ELSE IF k \notin OcoKeys THEN s
    ELSE IF s \in LiveStatuses THEN "NEW" ELSE "FILLED"

\* _order_result / query_oco: what a query turns the exchange's status into.
\* A list is EXECUTING (NEW) while a leg is live and ALL_DONE (FILLED) after,
\* whichever way it ended.
QueryStatus(k, s) ==
    IF s = "OTHER" THEN "UNKNOWN"
    ELSE IF k \notin OcoKeys THEN s
    ELSE IF s \in LiveStatuses THEN "NEW" ELSE "FILLED"

\* place_order / place_oco: the status of a successful placement.
PlaceStatus(k, s) == IF k \in OcoKeys THEN "NEW" ELSE QueryStatus(k, s)

\* query_order / query_oco: a RasatError, None for -2013, or a status.
QueryOutcomes(a, k) ==
    {"error", IF book[a][k] = "absent" THEN "none" ELSE QueryStatus(k, book[a][k])}

-----------------------------------------------------------------------------
(* Exposure *)

\* Mutant: an order in UNKNOWN is not counted.
OpenNotionalLiveOnly(a) ==
    MapThenSumSet(LAMBDA k : Notional[k], {k \in Keys : orders[a][k] \in LiveStatuses})

\* _open_order_notional
OpenNotional(a) ==
    MapThenSumSet(LAMBDA k : Notional[k], {k \in Keys : orders[a][k] \in OpenStatuses})

\* The value of the base balances _current_exposure reads from the broker.
HeldValue(a) == MapThenSumSet(LAMBDA k : filled[a][k], Keys)

-----------------------------------------------------------------------------
(* Handler state *)

PCs == {"idle", "wait", "load", "query", "apply", "preflight", "exposure",
        "caps", "insert", "send", "await", "timeout", "settle"}

Outcomes == ORDER_STATUSES \cup {"none", "error"}
Replies  == ORDER_STATUSES \cup {"none", "refused", "unauthorized"}

Request == [pc    : PCs,
            kind  : {"sized", "direct"},
            key   : Keys,
            acct  : Accounts,
            todo  : SUBSET Accounts,
            real  : [Accounts -> BOOLEAN],
            found : Outcomes,
            reply : Replies]

IdleRequest == [pc    |-> "idle",
                kind  |-> "direct",
                key   |-> CHOOSE k \in Keys : TRUE,
                acct  |-> CHOOSE a \in Accounts : TRUE,
                todo  |-> {},
                real  |-> [a \in Accounts |-> FALSE],
                found |-> "none",
                reply |-> "none"]

NoOrder == [busy |-> FALSE,
            acct |-> CHOOSE a \in Accounts : TRUE,
            key  |-> CHOOSE k \in Keys : TRUE,
            found |-> "none"]

TypeOK ==
    /\ trading_lock \in [Accounts -> {"paper", "real"}]
    /\ orders \in [Accounts -> [Keys -> RowStatuses]]
    /\ override \in [Accounts -> Nat]
    /\ consumed \in [Accounts -> SUBSET Keys]
    /\ locks \in [Accounts -> Tasks \cup {NoTask}]
    /\ req \in [Tasks -> Request]
    /\ DOMAIN open_notional = Tasks
    /\ phase \in {"down", "reconciling", "serving"}
    /\ stuck \subseteq Accounts \X Keys
    /\ rec \in [busy : BOOLEAN, acct : Accounts, key : Keys, found : Outcomes]
    /\ errors \subseteq Accounts \X Keys
    /\ wire \in [Accounts -> [Keys -> Nat]]
    /\ sent \in [Accounts -> [Keys -> Nat]]
    /\ book \in [Accounts -> [Keys -> ExchangeStatuses \cup {"absent"}]]
    /\ filled \in [Accounts -> [Keys -> Nat]]
    /\ crashes \in Nat
    /\ flips \in Nat

Init ==
    /\ trading_lock \in [Accounts -> {"paper", "real"}]
    /\ orders = [a \in Accounts |-> [k \in Keys |-> "none"]]
    /\ override = [a \in Accounts |-> Overrides]
    /\ consumed = [a \in Accounts |-> {}]
    /\ locks = [a \in Accounts |-> NoTask]
    /\ req = [t \in Tasks |-> IdleRequest]
    /\ open_notional = [t \in Tasks |-> 0]
    /\ phase = "serving"
    /\ stuck = {}
    /\ rec = NoOrder
    /\ errors = {}
    /\ wire = [a \in Accounts |-> [k \in Keys |-> 0]]
    /\ sent = [a \in Accounts |-> [k \in Keys |-> 0]]
    /\ book = [a \in Accounts |-> [k \in Keys |-> "absent"]]
    /\ filled = [a \in Accounts |-> [k \in Keys |-> 0]]
    /\ crashes = 0
    /\ flips = 0

At(t, l) == req[t].pc = l
Goto(t, l) == req' = [req EXCEPT ![t].pc = l]
SetRow(a, k, s) == orders' = [orders EXCEPT ![a][k] = s]

\* Mutant: the lock is not given back.
FinishKeepsLock(t) ==
    /\ req' = [req EXCEPT ![t] = IdleRequest]
    /\ UNCHANGED locks

\* The `async with lock` block ends; execute_on_accounts goes to its next target.
Finish(t) ==
    LET r == req[t]
        rest == r.todo \ {r.acct}
    IN  /\ locks' = [locks EXCEPT ![r.acct] = NoTask]
        /\ IF rest = {}
             THEN req' = [req EXCEPT ![t] = IdleRequest]
             ELSE \E a \in rest :
                    req' = [req EXCEPT ![t] = [r EXCEPT !.pc = "wait", !.acct = a,
                                               !.todo = rest,
                                               !.found = "none", !.reply = "none"]]

-----------------------------------------------------------------------------
(* Requests *)

\* execute_on_accounts up to its first lock: _resolve_targets reads every
\* target's trading lock here, before any account lock is held.
ExecuteOnAccounts(t, k, T) ==
    /\ phase = "serving"
    /\ At(t, "idle")
    /\ \E a \in T :
         req' = [req EXCEPT ![t] = [IdleRequest EXCEPT
                    !.pc = "wait", !.kind = "sized", !.key = k, !.acct = a, !.todo = T,
                    !.real = [x \in Accounts |-> trading_lock[x] = "real"]]]
    /\ UNCHANGED <<dbVars, locks, open_notional, startVars, netVars, exchVars, boundVars>>

\* place_order and place_oco_order up to their lock.
PlaceOrder(t, k, a) ==
    /\ phase = "serving"
    /\ At(t, "idle")
    /\ req' = [req EXCEPT ![t] = [IdleRequest EXCEPT
                  !.pc = "wait", !.kind = "direct", !.key = k, !.acct = a, !.todo = {a}]]
    /\ UNCHANGED <<dbVars, locks, open_notional, startVars, netVars, exchVars, boundVars>>

\* Mutant: the block is entered without waiting for the lock.
AcquireLockAnyway(t) ==
    LET a == req[t].acct
    IN  /\ At(t, "wait")
        /\ locks' = [locks EXCEPT ![a] = t]
        /\ req' = [req EXCEPT ![t].pc = "load", ![t].real[a] = trading_lock[a] = "real"]
        /\ UNCHANGED <<dbVars, open_notional, startVars, netVars, exchVars, boundVars>>

\* Entering `async with lock`; the direct calls read the account inside it.
AcquireLock(t) ==
    LET a == req[t].acct
    IN  /\ At(t, "wait")
        /\ locks[a] = NoTask
        /\ locks' = [locks EXCEPT ![a] = t]
        /\ req' = [req EXCEPT ![t].pc = "load",
                              ![t].real = IF req[t].kind = "direct"
                                            THEN [@ EXCEPT ![a] = trading_lock[a] = "real"]
                                            ELSE @]
        /\ UNCHANGED <<dbVars, open_notional, startVars, netVars, exchVars, boundVars>>

\* The idempotency check comes before every preflight; _handle_existing
\* returns the stored row when it is final or the account is not real.
LoadOrder(t) ==
    LET r == req[t]
        existing == orders[r.acct][r.key]
    IN  /\ At(t, "load")
        /\ \/ /\ existing = "none"
              /\ Goto(t, "preflight")
              /\ UNCHANGED locks
           \/ /\ existing \in OpenStatuses
              /\ r.real[r.acct]
              /\ Goto(t, "query")
              /\ UNCHANGED locks
           \/ /\ existing # "none"
              /\ existing \notin OpenStatuses \/ ~r.real[r.acct]
              /\ Finish(t)
        /\ UNCHANGED <<dbVars, open_notional, startVars, netVars, exchVars, boundVars>>

\* _handle_existing: ask the exchange; an error and -2013 both mean None, and
\* None returns the stored row.
QueryExisting(t) ==
    LET r == req[t]
    IN  /\ At(t, "query")
        /\ \E out \in QueryOutcomes(r.acct, r.key) :
             IF out \in {"error", "none"}
               THEN Finish(t)
               ELSE /\ req' = [req EXCEPT ![t].pc = "apply", ![t].found = out]
                    /\ UNCHANGED locks
        /\ UNCHANGED <<dbVars, open_notional, startVars, netVars, exchVars, boundVars>>

\* _handle_existing: write what the exchange said.
ApplyExisting(t) ==
    /\ At(t, "apply")
    /\ SetRow(req[t].acct, req[t].key, req[t].found)
    /\ Finish(t)
    /\ UNCHANGED <<trading_lock, override, consumed, open_notional, startVars,
                   netVars, exchVars, boundVars>>

\* _is_real, symbol, price freshness, filters, sizing, validation and the
\* balance gate: any of them may raise, and then nothing has been written.
Preflight(t) ==
    /\ At(t, "preflight")
    /\ \/ Goto(t, "exposure") /\ UNCHANGED locks
       \/ Finish(t)
    /\ UNCHANGED <<dbVars, open_notional, startVars, netVars, exchVars, boundVars>>

\* _current_exposure: the open notional of the database ...
ReadExposure(t) ==
    /\ At(t, "exposure")
    /\ open_notional' = [open_notional EXCEPT ![t] = OpenNotional(req[t].acct)]
    /\ Goto(t, "caps")
    /\ UNCHANGED <<dbVars, locks, startVars, netVars, exchVars, boundVars>>

\* ... plus the balances of the broker, then _enforce_caps_or_override.  The
\* last disjunct is the raise: no override left, or no price (STALE_DATA).
EnforceCaps(t) ==
    LET r == req[t]
        exposure_after == open_notional[t] + HeldValue(r.acct) + Notional[r.key]
    IN  /\ At(t, "caps")
        /\ \/ /\ exposure_after <= Cap
              /\ Goto(t, "insert")
              /\ UNCHANGED <<locks, override, consumed>>
           \/ /\ exposure_after > Cap
              /\ override[r.acct] > 0
              /\ override' = [override EXCEPT ![r.acct] = @ - 1]
              /\ consumed' = [consumed EXCEPT ![r.acct] = @ \cup {r.key}]
              /\ Goto(t, "insert")
              /\ UNCHANGED locks
           \/ /\ Finish(t)
              /\ UNCHANGED <<override, consumed>>
        /\ open_notional' = [open_notional EXCEPT ![t] = 0]
        /\ UNCHANGED <<trading_lock, orders, startVars, netVars, exchVars, boundVars>>

\* _place_and_record: the row is written before the broker is called; a paper
\* account stops here.
InsertOrder(t) ==
    LET r == req[t]
    IN  /\ At(t, "insert")
        /\ orders[r.acct][r.key] = "none"
        /\ \/ /\ r.real[r.acct]
              /\ SetRow(r.acct, r.key, "NEW")
              /\ Goto(t, "send")
              /\ UNCHANGED locks
           \/ /\ ~r.real[r.acct]
              /\ SetRow(r.acct, r.key, "paper")
              /\ Finish(t)
        /\ UNCHANGED <<trading_lock, override, consumed, open_notional, startVars,
                       netVars, exchVars, boundVars>>

\* broker.place_order / place_oco: the signed request leaves the process.
SendOrder(t) ==
    LET r == req[t]
    IN  /\ At(t, "send")
        /\ wire' = [wire EXCEPT ![r.acct][r.key] = @ + 1]
        /\ sent' = [sent EXCEPT ![r.acct][r.key] = @ + 1]
        /\ Goto(t, "await")
        /\ UNCHANGED <<dbVars, locks, open_notional, startVars, exchVars, boundVars>>

\* The placement's answer: ORDER_REJECTED makes the row REJECTED, any other
\* error UNKNOWN, a success the status the exchange gave.
ReceiveReply(t) ==
    LET r == req[t]
    IN  /\ At(t, "await")
        /\ r.reply # "none"
        /\ SetRow(r.acct, r.key, CASE r.reply = "refused"      -> "REJECTED"
                                   [] r.reply = "unauthorized" -> "UNKNOWN"
                                   [] OTHER                    -> r.reply)
        /\ Finish(t)
        /\ UNCHANGED <<trading_lock, override, consumed, open_notional, startVars,
                       netVars, exchVars, boundVars>>

\* The 20 s client timeout or a connection error, whatever became of the request.
Timeout(t) ==
    /\ At(t, "await")
    /\ req' = [req EXCEPT ![t].pc = "timeout", ![t].reply = "none"]
    /\ UNCHANGED <<dbVars, locks, open_notional, startVars, netVars, exchVars, boundVars>>

\* _reconcile_after_timeout: the query ...
QueryAfterTimeout(t) ==
    LET r == req[t]
    IN  /\ At(t, "timeout")
        /\ \E out \in QueryOutcomes(r.acct, r.key) :
             req' = [req EXCEPT ![t].pc = "settle", ![t].found = out]
        /\ UNCHANGED <<dbVars, locks, open_notional, startVars, netVars, exchVars, boundVars>>

\* Mutant: an order the exchange does not know yet is sent again.
SettleTimeoutResends(t) ==
    LET r == req[t]
    IN  /\ At(t, "settle")
        /\ \/ /\ r.found = "none"
              /\ req' = [req EXCEPT ![t].pc = "send"]
              /\ UNCHANGED <<orders, locks>>
           \/ /\ r.found # "none"
              /\ SetRow(r.acct, r.key, IF r.found = "error" THEN "UNKNOWN" ELSE r.found)
              /\ Finish(t)
        /\ UNCHANGED <<trading_lock, override, consumed, open_notional, startVars,
                       netVars, exchVars, boundVars>>

\* Mutant: an order the exchange does not know yet is taken for refused.
SettleTimeoutGivesUp(t) ==
    LET r == req[t]
    IN  /\ At(t, "settle")
        /\ SetRow(r.acct, r.key, CASE r.found = "error" -> "UNKNOWN"
                                   [] r.found = "none"  -> "REJECTED"
                                   [] OTHER             -> r.found)
        /\ Finish(t)
        /\ UNCHANGED <<trading_lock, override, consumed, open_notional, startVars,
                       netVars, exchVars, boundVars>>

\* ... and the write: what was found, UNKNOWN otherwise, never a second send.
SettleTimeout(t) ==
    LET r == req[t]
    IN  /\ At(t, "settle")
        /\ SetRow(r.acct, r.key, IF r.found \in {"error", "none"} THEN "UNKNOWN" ELSE r.found)
        /\ Finish(t)
        /\ UNCHANGED <<trading_lock, override, consumed, open_notional, startVars,
                       netVars, exchVars, boundVars>>

-----------------------------------------------------------------------------
(* Startup and operator *)

\* The process dies: handlers and locks are gone, the database, the network
\* and the exchange are not.
Crash ==
    /\ phase # "down"
    /\ crashes < MaxCrashes
    /\ crashes' = crashes + 1
    /\ phase' = "down"
    /\ locks' = [a \in Accounts |-> NoTask]
    /\ req' = [t \in Tasks |-> IdleRequest]
    /\ open_notional' = [t \in Tasks |-> 0]
    /\ stuck' = {}
    /\ rec' = NoOrder
    /\ errors' = {}
    /\ UNCHANGED <<dbVars, netVars, exchVars, flips>>

\* Mutant: only rows that are already in doubt are visited.
StartDaemonUnknownOnly ==
    /\ phase = "down"
    /\ phase' = "reconciling"
    /\ stuck' = {p \in Accounts \X Keys : /\ trading_lock[p[1]] = "real"
                                          /\ orders[p[1]][p[2]] = "UNKNOWN"}
    /\ UNCHANGED <<dbVars, locks, req, open_notional, rec, errors, netVars, exchVars, boundVars>>

\* reconcile_open_orders reads the open rows of the real accounts once.
StartDaemon ==
    /\ phase = "down"
    /\ phase' = "reconciling"
    /\ stuck' = {p \in Accounts \X Keys : /\ trading_lock[p[1]] = "real"
                                          /\ orders[p[1]][p[2]] \in OpenStatuses}
    /\ UNCHANGED <<dbVars, locks, req, open_notional, rec, errors, netVars, exchVars, boundVars>>

\* One query of the loop; a RasatError skips the order.
ReconcileQuery(a, k) ==
    /\ phase = "reconciling"
    /\ ~rec.busy
    /\ <<a, k>> \in stuck
    /\ stuck' = stuck \ {<<a, k>>}
    /\ \E out \in QueryOutcomes(a, k) :
         IF out = "error"
           THEN errors' = errors \cup {<<a, k>>} /\ UNCHANGED rec
           ELSE rec' = [busy |-> TRUE, acct |-> a, key |-> k, found |-> out] /\ UNCHANGED errors
    /\ UNCHANGED <<dbVars, locks, req, open_notional, phase, netVars, exchVars, boundVars>>

\* Mutant: an order the exchange does not know is canceled.
ReconcileWriteCancels ==
    /\ phase = "reconciling"
    /\ rec.busy
    /\ SetRow(rec.acct, rec.key, IF rec.found = "none" THEN "CANCELED" ELSE rec.found)
    /\ rec' = NoOrder
    /\ UNCHANGED <<trading_lock, override, consumed, locks, req, open_notional, phase, stuck, errors,
                   netVars, exchVars, boundVars>>

\* The write of the loop: UNKNOWN for None, what was found otherwise.
ReconcileWrite ==
    /\ phase = "reconciling"
    /\ rec.busy
    /\ SetRow(rec.acct, rec.key, IF rec.found = "none" THEN "UNKNOWN" ELSE rec.found)
    /\ rec' = NoOrder
    /\ UNCHANGED <<trading_lock, override, consumed, locks, req, open_notional, phase, stuck, errors,
                   netVars, exchVars, boundVars>>

\* Any other exception, of the database or of an answer that cannot be parsed, ends the
\* loop and is logged: the order at work and those not yet visited stay as they are.
AbortReconcile ==
    /\ phase = "reconciling"
    /\ errors' = errors \cup stuck \cup (IF rec.busy THEN {<<rec.acct, rec.key>>} ELSE {})
    /\ stuck' = {}
    /\ rec' = NoOrder
    /\ UNCHANGED <<dbVars, locks, req, open_notional, phase, netVars, exchVars, boundVars>>

\* The HTTP server starts after the reconcile, whether it ended or was aborted.
Serve ==
    /\ phase = "reconciling"
    /\ stuck = {}
    /\ ~rec.busy
    /\ phase' = "serving"
    /\ errors' = {}
    /\ UNCHANGED <<dbVars, locks, req, open_notional, stuck, rec, netVars, exchVars, boundVars>>

\* enable_real_trading / disable_real_trading: not under the account's lock.
FlipTradingLock(a) ==
    /\ phase = "serving"
    /\ flips < MaxFlips
    /\ flips' = flips + 1
    /\ trading_lock' = [trading_lock EXCEPT ![a] = IF @ = "real" THEN "paper" ELSE "real"]
    /\ UNCHANGED <<orders, override, consumed, daemonVars, netVars, exchVars, crashes>>

-----------------------------------------------------------------------------
(* The network and the exchange (external) *)

\* The answer reaches the handler that still waits for it, if there is one.
Deliver(a, k, answer) ==
    req' = [t \in Tasks |-> IF req[t].pc = "await" /\ req[t].acct = a /\ req[t].key = k
                              THEN [req[t] EXCEPT !.reply = answer]
                              ELSE req[t]]

\* The exchange creates the order.
AcceptOrder(a, k) ==
    /\ wire[a][k] > 0
    /\ book[a][k] = "absent"
    /\ wire' = [wire EXCEPT ![a][k] = @ - 1]
    /\ \E s \in ExchangeStatuses, q \in 0 .. Notional[k] :
         /\ Consistent(k, s, q)
         /\ book' = [book EXCEPT ![a][k] = s]
         /\ filled' = [filled EXCEPT ![a][k] = q]
         /\ Deliver(a, k, PlaceStatus(k, s))
    /\ UNCHANGED <<dbVars, locks, open_notional, startVars, sent, boundVars>>

\* The exchange refuses the request (HTTP >= 400, or 401/403).
RefuseOrder(a, k) ==
    /\ wire[a][k] > 0
    /\ wire' = [wire EXCEPT ![a][k] = @ - 1]
    /\ \E answer \in {"refused", "unauthorized"} : Deliver(a, k, answer)
    /\ UNCHANGED <<dbVars, locks, open_notional, startVars, sent, exchVars, boundVars>>

\* The request never arrives.
LoseRequest(a, k) ==
    /\ wire[a][k] > 0
    /\ wire' = [wire EXCEPT ![a][k] = @ - 1]
    /\ UNCHANGED <<dbVars, daemonVars, sent, exchVars, boundVars>>

\* A live order trades, expires or is cancelled on the exchange.
OrderProgress(a, k) ==
    /\ book[a][k] \in LiveStatuses
    /\ \E s \in ExchangeStatuses \ {"NEW", "REJECTED"}, q \in filled[a][k] .. Notional[k] :
         /\ Consistent(k, s, q)
         /\ book' = [book EXCEPT ![a][k] = s]
         /\ filled' = [filled EXCEPT ![a][k] = q]
    /\ UNCHANGED <<dbVars, daemonVars, netVars, boundVars>>

-----------------------------------------------------------------------------

HandlerStep(t) ==
    \/ LoadOrder(t) \/ QueryExisting(t) \/ ApplyExisting(t)
    \/ Preflight(t) \/ ReadExposure(t) \/ EnforceCaps(t)
    \/ InsertOrder(t) \/ SendOrder(t) \/ ReceiveReply(t)
    \/ Timeout(t) \/ QueryAfterTimeout(t) \/ SettleTimeout(t)

Next ==
    \/ \E t \in Tasks, k \in Keys :
         \/ \E T \in SUBSET Accounts \ {{}} : ExecuteOnAccounts(t, k, T)
         \/ \E a \in Accounts : PlaceOrder(t, k, a)
    \/ \E t \in Tasks : AcquireLock(t) \/ HandlerStep(t)
    \/ Crash \/ StartDaemon \/ ReconcileWrite \/ AbortReconcile \/ Serve
    \/ \E a \in Accounts : FlipTradingLock(a)
    \/ \E a \in Accounts, k \in Keys :
         \/ ReconcileQuery(a, k)
         \/ AcceptOrder(a, k) \/ RefuseOrder(a, k)
         \/ LoseRequest(a, k) \/ OrderProgress(a, k)

Spec == Init /\ [][Next]_vars

(* Scheduling: every handler keeps running, a waiting handler gets the      *)
(* asyncio.Lock in the end (its waiters are woken in FIFO order).           *)
FairSpec == /\ Spec
            /\ \A t \in Tasks : WF_vars(HandlerStep(t)) /\ SF_vars(AcquireLock(t))

-----------------------------------------------------------------------------
(* Properties *)

\* Blind resubmission is never performed: whatever times out, is retried or
\* crashes, an account's idempotency key is sent to the exchange at most once.
NoBlindResubmission ==
    \A a \in Accounts, k \in Keys : sent[a][k] <= 1

\* An order that is live on the exchange, or may still arrive there, has a row
\* in a status that the exposure check and the startup reconcile look at.
LiveOrderTracked ==
    \A a \in Accounts, k \in Keys :
        wire[a][k] > 0 \/ book[a][k] \in LiveStatuses => orders[a][k] \in OpenStatuses

\* A row in a final status tells the truth about the exchange: nothing of the
\* order is on the network, and it ended that way (an order list: it ended).
RowAgrees(a, k) ==
    orders[a][k] \in FinalStatuses =>
        /\ wire[a][k] = 0
        /\ \/ orders[a][k] = "REJECTED" /\ book[a][k] = "absent"
           \/ book[a][k] # "absent" /\ orders[a][k] = QueryStatus(k, book[a][k])

FinalRowAgrees == \A a \in Accounts, k \in Keys : RowAgrees(a, k)

\* What the orders of an account can still cost: all of an order while it can
\* trade, else its fills.
Commitment(a) ==
    [k \in Keys |-> IF wire[a][k] > 0 \/ book[a][k] \in LiveStatuses
                      THEN Notional[k] ELSE filled[a][k]]

\* max_aggregate_exposure holds of what the exchange really has: the orders no
\* override let through never commit more than the cap, concurrent requests,
\* timeouts and late arrivals included.
CapRespected ==
    \A a \in Accounts :
        MapThenSumSet(LAMBDA k : Commitment(a)[k], Keys \ consumed[a]) <= Cap

\* The UNIQUE constraint never fires: the handler that found no row still finds
\* none when it inserts, however many handlers use the key.
KeyFreeAtInsert ==
    \A t \in Tasks : At(t, "insert") => orders[req[t].acct][req[t].key] = "none"

\* The states of a handler inside `async with lock`.
Critical(t) == req[t].pc \notin {"idle", "wait"}

\* Per-account serialization: the lock of an account is held by exactly the
\* handler working on it, so two requests never race on one account and a
\* request that goes on to its next target leaves no lock behind.
LockDiscipline ==
    \A a \in Accounts, t \in Tasks :
        locks[a] = t <=> Critical(t) /\ req[t].acct = a

\* A final or paper row is never written again.
FinalRowsStay ==
    [][\A a \in Accounts, k \in Keys :
          orders[a][k] \in FinalStatuses \cup {"paper"} => orders'[a][k] = orders[a][k]]_orders

\* When the daemon starts to serve after a crash, a real account keeps a row in
\* NEW only if the exchange has the order, its startup query failed or the
\* reconcile was aborted before it was through with the order: the orphan of a
\* crash between the insert and the broker call is found.
StartupFindsOrphans ==
    [][phase = "reconciling" /\ phase' = "serving" =>
         \A a \in Accounts, k \in Keys :
            trading_lock[a] = "real" /\ orders[a][k] = "NEW" =>
                book[a][k] # "absent" \/ <<a, k>> \in errors]_phase

\* Every request is answered: no handler waits for ever, on a lock or the broker.
RequestsFinish == \A t \in Tasks : []<>At(t, "idle")

-----------------------------------------------------------------------------
(* What an idempotency key promises: the refinement of IdempotentExecution *)

\* What has become of the order a key stands for, from its row, the requests on the wire
\* and ever sent, and the book.
Stage(k, row, w, n, b) ==
    CASE b \in LiveStatuses -> "live"
      [] b \notin LiveStatuses \cup {"absent"} -> QueryStatus(k, b)
      [] b = "absent" /\ w > 0 -> "underway"
      [] b = "absent" /\ w = 0 /\ n > 0 -> "gone"
      [] b = "absent" /\ w = 0 /\ n = 0 /\ row = "none" -> "unused"
      [] b = "absent" /\ w = 0 /\ n = 0 /\ row = "paper" -> "paper"
      [] OTHER -> "recorded"

Attempt(a, k) == Stage(k, orders[a][k], wire[a][k], sent[a][k], book[a][k])

\* What the row of the key says of it.
Answer(a, k) == IF orders[a][k] \in OpenStatuses THEN "open" ELSE orders[a][k]

Promise(a, k) == INSTANCE IdempotentExecution WITH attempt <- Attempt(a, k), answer <- Answer(a, k)

\* Handlers, timeouts, retries, crashes and the startup reconcile together implement the
\* promise of every key on every account: it is recorded, then sent, once, and its row
\* becomes final when the order has ended, in the way it has ended.
KeyIsOneAttempt ==
    /\ \A a \in Accounts, k \in Keys : Promise(a, k)!Init
    /\ [][\A a \in Accounts, k \in Keys : [Promise(a, k)!Next]_(Promise(a, k)!vars)]_vars

-----------------------------------------------------------------------------
(* The inductive invariant behind the safety properties *)

\* A final status read from the exchange is still the exchange's status when it
\* is written, however long the write waits.
Seen(a, k, s) ==
    s \in FinalStatuses => book[a][k] # "absent" /\ s = QueryStatus(k, book[a][k])

\* A request is sent only once, and only after its row was written.
SendOK(a, k) ==
    /\ sent[a][k] <= 1
    /\ wire[a][k] <= sent[a][k]
    /\ book[a][k] # "absent" => wire[a][k] = 0 /\ sent[a][k] = 1
    /\ orders[a][k] \in {"none", "paper"} => sent[a][k] = 0

SendInv == \A a \in Accounts, k \in Keys : SendOK(a, k)

\* What the lock holder knows of its row at each await.
HandlerOK(t) ==
    LET r == req[t]
        row == orders[r.acct][r.key]
    IN  /\ r.pc \in {"preflight", "exposure", "caps", "insert"} => row = "none"
        /\ r.pc \in {"query", "apply"} => row \in OpenStatuses
        /\ r.pc \in {"send", "await", "timeout", "settle"} => row = "NEW"
        /\ r.pc = "send" => sent[r.acct][r.key] = 0
        /\ r.pc \in {"await", "timeout", "settle"} => sent[r.acct][r.key] = 1
        /\ r.pc # "await" => r.reply = "none"
        /\ r.pc = "apply" => r.found \in ORDER_STATUSES
        /\ r.pc \in {"apply", "settle"} => Seen(r.acct, r.key, r.found)
        /\ r.pc = "await" /\ r.reply # "none" =>
             /\ wire[r.acct][r.key] = 0
             /\ r.reply = "refused" => book[r.acct][r.key] = "absent"
             /\ Seen(r.acct, r.key, r.reply)

HandlerInv == \A t \in Tasks : HandlerOK(t)

\* The startup reconcile runs alone and only on rows that are still open.
StartupInv ==
    /\ phase # "serving" => \A t \in Tasks : At(t, "idle")
    /\ phase # "reconciling" => stuck = {} /\ ~rec.busy
    /\ \A p \in stuck : orders[p[1]][p[2]] \in OpenStatuses
    /\ rec.busy => /\ orders[rec.acct][rec.key] \in OpenStatuses
                   /\ rec.found # "error"
                   /\ Seen(rec.acct, rec.key, rec.found)
                   /\ <<rec.acct, rec.key>> \notin stuck

IInv == TypeOK /\ LockDiscipline /\ SendInv /\ HandlerInv /\ StartupInv /\ FinalRowAgrees
=============================================================================
