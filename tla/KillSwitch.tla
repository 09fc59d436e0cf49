----------------------------- MODULE KillSwitch -----------------------------
(***************************************************************************)
(* The kill switch of the daemon on one account (storage/orders.py         *)
(* close_all_positions, _close_one): cancel what is open locally or on the *)
(* exchange, then sell the base balances at market, under the account's    *)
(* lock.  The lock keeps every other request of the account out (module    *)
(* OrderExecution), so a run competes with the exchange, the network, an   *)
(* operator flipping the trading lock and a crash of the daemon.           *)
(*                                                                         *)
(* NEW stands for NEW and PARTIALLY_FILLED, which the code never tells     *)
(* apart here.  Quantities count units of the base asset: an order of a    *)
(* request buys, or for an order list sells, one unit.                     *)
(***************************************************************************)
EXTENDS Naturals, FiniteSets, FiniteSetsExt

CONSTANTS
    Orders,         \* orders that requests place
    Oco,            \* those that are order lists; they sell
    Bare,           \* orders the exchange reports without a client order id
    Symbols,
    SymbolOf,       \* the symbol of an order
    Listed,         \* the symbols market.symbol_valid knows
    MaxRuns,        \* bound: runs of the kill switch
    MaxCrashes,     \* bound: daemon crashes
    MaxFlips        \* bound: enable_real_trading / disable_real_trading calls

ASSUME OrderAssumption == /\ Oco \subseteq Orders
                          /\ Bare \subseteq Orders \ Oco
                          /\ SymbolOf \in [Orders -> Symbols]
                          /\ Listed \subseteq Symbols
                          /\ IsFiniteSet(Orders) /\ IsFiniteSet(Symbols)
ASSUME BoundAssumption == MaxRuns \in Nat /\ MaxCrashes \in Nat /\ MaxFlips \in Nat

\* The close order of a symbol in a run: its key holds the nonce of the run.
Sells == Symbols \X (1 .. MaxRuns)
Ids   == Orders \cup Sells

ASSUME IdAssumption == Orders \cap Sells = {}

VARIABLES
    real,       \* accounts.trading_lock = "real"
    row,        \* status column of the orders table, "none" without a row
    book,       \* the exchange's status, "absent", or "inflight" on its way there
    held,       \* base units the account owns on the exchange
    qty,        \* quantity of each close order
    run,        \* the run of _close_one that holds the account's lock
    runs,       \* runs started: the nonce of the current one
    closed,     \* the last reported result
    late,       \* base units locked when the run read the balances, or bought after
    crashes, flips

exchVars  == <<book, held, late>>
boundVars == <<crashes, flips>>
vars      == <<real, row, book, held, qty, run, runs, closed, late, crashes, flips>>

-----------------------------------------------------------------------------

OpenStatuses  == {"NEW", "UNKNOWN"}
FinalStatuses == {"FILLED", "CANCELED", "EXPIRED", "REJECTED"}
RowStatuses   == OpenStatuses \cup FinalStatuses \cup {"none"}
BookStatuses  == {"absent", "inflight", "NEW"} \cup FinalStatuses

Symbol(i) == IF i \in Orders THEN SymbolOf[i] ELSE i[1]
Live == {i \in Ids : book[i] = "NEW"}

\* query_order / query_oco of an order the exchange knows; a list that is over
\* is FILLED, whichever way it ended.
QueryStatus(i) ==
    IF book[i] \in {"absent", "inflight", "REJECTED"} THEN "none"
    ELSE IF i \in Oco /\ book[i] # "NEW" THEN "FILLED" ELSE book[i]

\* What a caller makes of a query: None also when it failed, because every
\* caller catches RasatError; UNKNOWN for a status outside ORDER_STATUSES.
Answers(i) == {"none", QueryStatus(i)} \cup (IF i \in Live THEN {"UNKNOWN"} ELSE {})

\* free of get_balance: what no live sell order locks.
Units == [i \in Ids |-> IF i \in Sells THEN qty[i] ELSE 1]
Sold(s) == {i \in Oco \cup Sells : Symbol(i) = s}
FreeUnits(s) == held[s] - MapThenSumSet(LAMBDA i : Units[i], Sold(s) \cap Live)

\* The exchange executes order i.
Trade(i) ==
    LET s == Symbol(i)
        buy == i \in Orders \ Oco
    IN  /\ held' = [held EXCEPT ![s] = IF buy THEN @ + 1 ELSE @ - Units[i]]
        /\ late' = [late EXCEPT ![s] = IF buy THEN @ + 1 ELSE @]

-----------------------------------------------------------------------------
(* The run of _close_one *)

PCs == {"idle", "local", "exchange", "cancel", "verify", "write", "sell", "query", "sync",
        "insert", "place", "await", "timeout", "settle"}

Idle == [pc     |-> "idle",
         open   |-> {},                         \* open_orders
         live   |-> {},                         \* exchange_open
         bulk   |-> {},                         \* symbols of orders without a client id
         todo   |-> {},                         \* targets: an order, and whether its row is synced
         cur    |-> CHOOSE i \in Sells : TRUE,  \* the order an await is about
         own    |-> FALSE,                      \* whether its row is synced
         found  |-> "none",                     \* what the await returned
         sells  |-> {},                         \* symbols still to sell
         free   |-> [s \in Symbols |-> 0],      \* balances
         errors |-> FALSE,                      \* cancel_errors is not empty
         sold   |-> TRUE]                       \* every entry of sold is FILLED

TypeOK ==
    /\ real \in BOOLEAN
    /\ row \in [Ids -> RowStatuses]
    /\ book \in [Ids -> BookStatuses]
    /\ held \in [Symbols -> Nat] /\ late \in [Symbols -> Nat]
    /\ qty \in [Sells -> Nat]
    /\ run \in [pc : PCs, open : SUBSET Ids, live : SUBSET Ids, bulk : SUBSET Symbols,
                todo : SUBSET (Ids \X BOOLEAN), cur : Ids, own : BOOLEAN, found : RowStatuses,
                sells : SUBSET Symbols, free : [Symbols -> Nat],
                errors : BOOLEAN, sold : BOOLEAN]
    /\ runs \in 0 .. MaxRuns
    /\ closed \in BOOLEAN
    /\ crashes \in 0 .. MaxCrashes /\ flips \in 0 .. MaxFlips

Init ==
    /\ real \in BOOLEAN
    /\ row = [i \in Ids |-> "none"]
    /\ book = [i \in Ids |-> "absent"]
    /\ held = [s \in Symbols |-> 0] /\ late = [s \in Symbols |-> 0]
    /\ qty = [i \in Sells |-> 0]
    /\ run = Idle
    /\ runs = 0
    /\ closed = FALSE
    /\ crashes = 0 /\ flips = 0

At(l) == run.pc = l
Goto(l) == run' = [run EXCEPT !.pc = l]
SetRow(i, s) == row' = [row EXCEPT ![i] = s]

\* The end of a run; an exception reports closed = FALSE.
Report(result) == run' = Idle /\ closed' = result

\* The lock is taken and the open rows are read; UNKNOWN rows are not.
CloseOne ==
    /\ At("idle")
    /\ runs < MaxRuns
    /\ runs' = runs + 1
    /\ run' = [Idle EXCEPT !.pc = IF real THEN "exchange" ELSE "local",
                           !.open = {i \in Ids : row[i] = "NEW"}]
    /\ closed' = FALSE
    /\ UNCHANGED <<real, row, qty, exchVars, boundVars>>

\* A paper account: its open rows are canceled locally and nothing is sold.
CancelLocal(i) ==
    /\ At("local")
    /\ i \in run.open
    /\ SetRow(i, "CANCELED")
    /\ run' = [run EXCEPT !.open = @ \ {i}]
    /\ UNCHANGED <<real, qty, runs, closed, exchVars, boundVars>>

FinishLocal ==
    /\ At("local")
    /\ run.open = {}
    /\ Report(FALSE)
    /\ UNCHANGED <<real, row, qty, runs, exchVars, boundVars>>

\* get_all_open_orders and the targets.  The exchange lists the legs of an
\* order list under ids of its own, so a listed one is a target of both kinds.
ReadExchange ==
    /\ At("exchange")
    /\ \/ Report(FALSE)
       \/ /\ run' = [run EXCEPT
                !.pc   = "cancel",
                !.live = Live,
                !.bulk = {SymbolOf[i] : i \in Live \cap Bare},
                !.todo = (run.open \X {TRUE})
                           \cup {i \in Live \ Bare : i \notin run.open \/ i \in Oco} \X {FALSE}]
          /\ UNCHANGED closed
    /\ UNCHANGED <<real, row, qty, runs, exchVars, boundVars>>

\* Mutant: a failed bulk cancellation is only logged.
BulkCancelUnnoticed(s) ==
    /\ At("cancel")
    /\ s \in run.bulk
    /\ \E done \in BOOLEAN :
         book' = [i \in Ids |-> IF done /\ i \in Live /\ Symbol(i) = s THEN "CANCELED" ELSE book[i]]
    /\ run' = [run EXCEPT !.bulk = @ \ {s}]
    /\ UNCHANGED <<real, row, qty, runs, closed, held, late, boundVars>>

\* cancel_all_open_orders for the orders without a client id; when the call
\* fails the exchange may have done it all the same.
BulkCancel(s) ==
    /\ At("cancel")
    /\ s \in run.bulk
    /\ \E ok, done \in BOOLEAN :
         /\ ok => done
         /\ book' = [i \in Ids |-> IF done /\ i \in Live /\ Symbol(i) = s THEN "CANCELED"
                                   ELSE book[i]]
         /\ run' = [run EXCEPT !.bulk = @ \ {s}, !.errors = @ \/ ~ok]
    /\ UNCHANGED <<real, row, qty, runs, closed, held, late, boundVars>>

\* Mutant: an order in doubt is not an error.
OutcomeUnnoticed(r, status) ==
    [r EXCEPT !.pc = IF r.own THEN "write" ELSE "cancel",
              !.found = IF status \in OpenStatuses THEN "UNKNOWN" ELSE status]

\* What _cancel_one does with a status: a target without a row has nothing to
\* write; one that is not terminal, or a failed call, is UNKNOWN and an error.
Outcome(r, status) ==
    LET open == status \in OpenStatuses
    IN  [r EXCEPT !.pc = IF r.own THEN "write" ELSE "cancel",
                  !.found = IF open THEN "UNKNOWN" ELSE status,
                  !.errors = @ \/ open]

\* Mutant: a target whose cancellation failed is tried again.
CancelOneRetries(i, own) ==
    /\ At("cancel")
    /\ run.bulk = {}
    /\ <<i, own>> \in run.todo
    /\ \/ run' = [run EXCEPT !.errors = TRUE] /\ UNCHANGED book
       \/ /\ i \in Live
          /\ book' = [book EXCEPT ![i] = "CANCELED"]
          /\ run' = Outcome([run EXCEPT !.todo = @ \ {<<i, own>>}, !.cur = i, !.own = own], "CANCELED")
    /\ UNCHANGED <<real, row, qty, runs, closed, held, late, boundVars>>

\* _cancel_one up to the answer of cancel_order or cancel_oco.  A failed call
\* may have cancelled the order, an order may fill while it is being cancelled,
\* and -2011 only says that it is not live.
CancelOne(i, own) ==
    LET r == [run EXCEPT !.todo = @ \ {<<i, own>>}, !.cur = i, !.own = own]
        Ended(status) == book' = [book EXCEPT ![i] = status]
    IN  /\ At("cancel")
        /\ run.bulk = {}
        /\ <<i, own>> \in run.todo
        /\ own \/ \A t \in run.todo : ~t[2]
        /\ \/ /\ run' = Outcome(r, "UNKNOWN")
              /\ UNCHANGED book \/ (i \in Live /\ Ended("CANCELED"))
              /\ UNCHANGED <<held, late>>
           \/ /\ i \in Live
              /\ Ended("CANCELED")
              /\ run' = Outcome(r, "CANCELED")
              /\ UNCHANGED <<held, late>>
           \/ /\ i \in Live
              /\ Ended("FILLED")
              /\ Trade(i)
              /\ run' = Outcome(r, "FILLED")
           \/ /\ i \notin Live
              /\ run' = [r EXCEPT !.pc = "verify"]
              /\ UNCHANGED exchVars
        /\ UNCHANGED <<real, row, qty, runs, closed, boundVars>>

\* _query_safe after -2011; None is taken for a cancelled order.
VerifyGone ==
    /\ At("verify")
    /\ \E a \in Answers(run.cur) : run' = Outcome(run, IF a = "none" THEN "CANCELED" ELSE a)
    /\ UNCHANGED <<real, row, qty, runs, closed, exchVars, boundVars>>

\* _write_cancel, _write_unknown or _write_sync.
WriteRow ==
    /\ At("write")
    /\ SetRow(run.cur, run.found)
    /\ Goto("cancel")
    /\ UNCHANGED <<real, qty, runs, closed, exchVars, boundVars>>

\* Mutant: the balances do not wait for the cancellations.
ReadBalanceEarly ==
    /\ At("cancel")
    /\ run' = [run EXCEPT !.pc = "sell",
                          !.free = [s \in Symbols |-> FreeUnits(s)],
                          !.sells = {s \in Symbols : FreeUnits(s) > 0}]
    /\ late' = [s \in Symbols |-> held[s] - FreeUnits(s)]
    /\ UNCHANGED <<real, row, qty, runs, closed, book, held, boundVars>>

\* get_balance, once every target has had its turn.
ReadBalance ==
    /\ At("cancel")
    /\ run.bulk = {} /\ run.todo = {}
    /\ \/ Report(FALSE) /\ UNCHANGED late
       \/ /\ run' = [run EXCEPT !.pc = "sell",
                                !.free = [s \in Symbols |-> FreeUnits(s)],
                                !.sells = {s \in Symbols : FreeUnits(s) > 0}]
          /\ late' = [s \in Symbols |-> held[s] - FreeUnits(s)]
          /\ UNCHANGED closed
    /\ UNCHANGED <<real, row, qty, runs, book, held, boundVars>>

\* _load_open_close: the newest close order of the symbol with an open row.
OpenCloses(s) == {n \in 1 .. MaxRuns : row[<<s, n>>] \in OpenStatuses}

\* The next balance: a symbol that is not listed is passed over without a word,
\* a stale price, no filters or less than min_qty is reported as skipped.
NextSell(s) ==
    LET r == [run EXCEPT !.sells = @ \ {s}]
    IN  /\ At("sell")
        /\ s \in run.sells
        /\ \/ s \notin Listed /\ run' = r
           \/ s \in Listed /\ run' = [r EXCEPT !.sold = FALSE]
           \/ /\ s \in Listed
              /\ run' = IF OpenCloses(s) = {}
                          THEN [r EXCEPT !.pc = "insert", !.cur = <<s, runs>>]
                          ELSE [r EXCEPT !.pc = "query", !.cur = <<s, Max(OpenCloses(s))>>]
        /\ UNCHANGED <<real, row, qty, runs, closed, exchVars, boundVars>>

\* Reconcile-before-resend: ask for the close order that is still open.
QueryOpenClose ==
    /\ At("query")
    /\ \E a \in Answers(run.cur) :
         run' = IF a = "none" THEN [run EXCEPT !.pc = "insert", !.cur = <<@[1], runs>>]
                              ELSE [run EXCEPT !.pc = "sync", !.found = a]
    /\ UNCHANGED <<real, row, qty, runs, closed, exchVars, boundVars>>

\* _sync; only an attempt that failed for good is followed by a new sell.
SyncOpenClose ==
    /\ At("sync")
    /\ SetRow(run.cur, run.found)
    /\ run' = IF run.found \in OpenStatuses \cup {"FILLED"}
                THEN [run EXCEPT !.pc = "sell", !.sold = @ /\ run.found = "FILLED"]
                ELSE [run EXCEPT !.pc = "insert", !.cur = <<@[1], runs>>]
    /\ UNCHANGED <<real, qty, runs, closed, exchVars, boundVars>>

\* _place_and_record: the row ...
InsertSell ==
    /\ At("insert")
    /\ SetRow(run.cur, "NEW")
    /\ qty' = [qty EXCEPT ![run.cur] = run.free[run.cur[1]]]
    /\ Goto("place")
    /\ UNCHANGED <<real, runs, closed, exchVars, boundVars>>

\* ... the request ...
SendSell ==
    /\ At("place")
    /\ book' = [book EXCEPT ![run.cur] = "inflight"]
    /\ Goto("await")
    /\ UNCHANGED <<real, row, qty, runs, closed, held, late, boundVars>>

\* Mutant: only a refused sell counts as not sold.
SellOutcomeLenient(status) ==
    /\ SetRow(run.cur, status)
    /\ run' = [run EXCEPT !.pc = "sell", !.sold = @ /\ status # "REJECTED"]

\* ... and its outcome, written in a transaction of its own.
SellOutcome(status) ==
    /\ SetRow(run.cur, status)
    /\ run' = [run EXCEPT !.pc = "sell", !.sold = @ /\ status = "FILLED"]

\* An answer: as old as the placement, or a refusal (UNAUTHORIZED is UNKNOWN).
SellAnswered ==
    /\ At("await")
    /\ \/ /\ book[run.cur] = "inflight"
          /\ book' = [book EXCEPT ![run.cur] = "absent"]
          /\ SellOutcome("UNKNOWN")
       \/ /\ book[run.cur] \notin {"inflight", "absent"}
          /\ \E status \in {book[run.cur]} \cup (IF book[run.cur] = "REJECTED" THEN {} ELSE {"NEW"}) :
               SellOutcome(status)
          /\ UNCHANGED book
    /\ UNCHANGED <<real, qty, runs, closed, held, late, boundVars>>

SellTimeout ==
    /\ At("await")
    /\ Goto("timeout")
    /\ UNCHANGED <<real, row, qty, runs, closed, exchVars, boundVars>>

\* _reconcile_after_timeout
QueryTimedOut ==
    /\ At("timeout")
    /\ \E a \in Answers(run.cur) : run' = [run EXCEPT !.pc = "settle", !.found = a]
    /\ UNCHANGED <<real, row, qty, runs, closed, exchVars, boundVars>>

SettleSell ==
    /\ At("settle")
    /\ SellOutcome(IF run.found = "none" THEN "UNKNOWN" ELSE run.found)
    /\ UNCHANGED <<real, qty, runs, closed, exchVars, boundVars>>

FinishRun ==
    /\ At("sell")
    /\ run.sells = {}
    /\ Report(~run.errors /\ run.sold)
    /\ UNCHANGED <<real, row, qty, runs, exchVars, boundVars>>

-----------------------------------------------------------------------------
(* Requests, the operator, crashes *)

\* What a request of the account leaves behind when it gives the lock back
\* (OrderExecution): an open row whose order is on its way, live or over.
RequestDone(o) ==
    /\ At("idle")
    /\ real
    /\ o \notin Bare
    /\ row[o] = "none"
    /\ \E status \in OpenStatuses, b \in {"absent", "inflight", "NEW", "FILLED"} :
         /\ b \in {"NEW", "FILLED"} /\ o \in Oco => FreeUnits(Symbol(o)) > 0
         /\ SetRow(o, status)
         /\ book' = [book EXCEPT ![o] = b]
         /\ IF b = "FILLED" THEN Trade(o) ELSE UNCHANGED <<held, late>>
    /\ UNCHANGED <<real, qty, run, runs, closed, boundVars>>

FlipTradingLock ==
    /\ flips < MaxFlips
    /\ flips' = flips + 1
    /\ real' = ~real
    /\ UNCHANGED <<row, qty, run, runs, closed, exchVars, crashes>>

\* The daemon dies in a run and is started again: reconcile_open_orders queries
\* the open rows of a real account; a query that fails leaves its row.
Restart ==
    /\ ~At("idle")
    /\ crashes < MaxCrashes
    /\ crashes' = crashes + 1
    /\ run' = Idle
    /\ \E answered \in SUBSET {i \in Ids : real /\ row[i] \in OpenStatuses} :
         row' = [i \in Ids |-> IF i \notin answered THEN row[i]
                               ELSE IF QueryStatus(i) = "none" THEN "UNKNOWN"
                               ELSE QueryStatus(i)]
    /\ UNCHANGED <<real, qty, runs, closed, exchVars, flips>>

-----------------------------------------------------------------------------
(* The network and the exchange (external) *)

\* Another client of the account leaves an order without a client order id.
ForeignOrder(o) ==
    /\ o \in Bare
    /\ book[o] = "absent"
    /\ book' = [book EXCEPT ![o] = "NEW"]
    /\ UNCHANGED <<real, row, qty, run, runs, closed, held, late, boundVars>>

\* A request is lost, or arrives; a sell needs the free balance it sells.
Arrive(i) ==
    /\ book[i] = "inflight"
    /\ \/ book' = [book EXCEPT ![i] = "absent"] /\ UNCHANGED <<held, late>>
       \/ /\ i \in Oco \cup Sells /\ FreeUnits(Symbol(i)) < Units[i]
          /\ book' = [book EXCEPT ![i] = "REJECTED"]
          /\ UNCHANGED <<held, late>>
       \/ /\ i \in Oco \cup Sells => FreeUnits(Symbol(i)) >= Units[i]
          /\ \/ book' = [book EXCEPT ![i] = "NEW"] /\ UNCHANGED <<held, late>>
             \/ book' = [book EXCEPT ![i] = "FILLED"] /\ Trade(i)
    /\ UNCHANGED <<real, row, qty, run, runs, closed, boundVars>>

\* A live order trades or expires.
Progress(i) ==
    /\ i \in Live
    /\ \/ book' = [book EXCEPT ![i] = "EXPIRED"] /\ UNCHANGED <<held, late>>
       \/ book' = [book EXCEPT ![i] = "FILLED"] /\ Trade(i)
    /\ UNCHANGED <<real, row, qty, run, runs, closed, boundVars>>

-----------------------------------------------------------------------------

RunStep ==
    \/ \E i \in Ids : CancelLocal(i) \/ \E own \in BOOLEAN : CancelOne(i, own)
    \/ \E s \in Symbols : BulkCancel(s) \/ NextSell(s)
    \/ FinishLocal \/ ReadExchange \/ VerifyGone \/ WriteRow \/ ReadBalance
    \/ QueryOpenClose \/ SyncOpenClose \/ InsertSell \/ SendSell
    \/ SellAnswered \/ SellTimeout \/ QueryTimedOut \/ SettleSell \/ FinishRun

Next ==
    \/ CloseOne \/ RunStep \/ FlipTradingLock \/ Restart
    \/ \E o \in Orders : RequestDone(o) \/ ForeignOrder(o)
    \/ \E i \in Ids : Arrive(i) \/ Progress(i)

Spec == Init /\ [][Next]_vars

\* The event loop keeps running the handler.
FairSpec == Spec /\ WF_vars(RunStep)

-----------------------------------------------------------------------------
(* Properties *)

Reported == run.pc # "idle" /\ run'.pc = "idle" /\ closed'

\* closed = TRUE is never reported over an order that was live on the exchange
\* when the run listed it and still is: cancellation failed, was refused, or hit
\* an order the database does not know (T01).
ClosedLeavesNoneLive ==
    [][Reported => run.live \cap Live = {}]_vars

\* closed = TRUE is never reported while a row the run found open, or the close
\* order it placed, is in doubt: an UNKNOWN means closed = FALSE.
ClosedLeavesNoneOpen ==
    [][Reported => /\ \A i \in run.open : row[i] \in FinalStatuses
                   /\ \A s \in Symbols : row[<<s, runs>>] \notin OpenStatuses]_vars

\* No sell goes out before every order of the account had its cancellation
\* attempted: the balances are read when nothing the run saw can lock them
\* without an entry in cancel_errors.
SellsAfterCancels ==
    At("place") => run.errors \/ run.live \cap Live = {}

\* "NEVER perform a blind duplicate sell": two close orders of a symbol are
\* never on their way or live together.
NoDuplicateSell ==
    \A s \in Symbols :
        Cardinality({n \in 1 .. MaxRuns : book[<<s, n>>] \in {"inflight", "NEW"}}) <= 1

\* "closed is True only when everything was actually sold": of a listed symbol,
\* all that was free when the run read the balances is gone from the account,
\* whichever close order, of this run or an earlier one, the run relied on.
ClosedMeansSold ==
    [][Reported => \A s \in Listed : held[s] <= late[s]]_vars

\* It is so where the run placed a close order of its own or found nothing to
\* sell: a timeout, a late fill or an answer from the past is never a success.
OwnCloseSold ==
    [][Reported => \A s \in Listed :
          run.free[s] = 0 \/ row[<<s, runs>>] # "none" => held[s] <= late[s]]_vars

\* A run of the kill switch always ends, whatever fails on the way.
RunEnds == []<>At("idle")
=============================================================================
