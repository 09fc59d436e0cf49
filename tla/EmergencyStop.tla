---------------------------- MODULE EmergencyStop ----------------------------
(***************************************************************************)
(* The emergency stop (emergency_stop.py), a process of its own that works *)
(* without the daemon: it cancels the open orders of an account, sells the *)
(* free balances and keeps an append-only log (storage/emergency_log.py),  *)
(* which the daemon copies into audit_log when it starts.                  *)
(*                                                                         *)
(* Runs follow one another, each with a nonce of its own; dry runs change  *)
(* nothing and are left out.  Orders of other clients buy one unit, orders *)
(* trade as a whole, and accounts are independent of each other.           *)
(***************************************************************************)
EXTENDS Naturals, Sequences, FiniteSets, FiniteSetsExt, SequencesExt

CONSTANTS
    Symbols,
    Orders,         \* orders other clients may place
    SymbolOf,       \* their symbols
    MaxRuns,        \* bound: runs of the script
    MaxStarts,      \* bound: starts of the daemon
    MaxCrashes      \* bound: runs that die

ASSUME SymbolAssumption == /\ Symbols # {} /\ IsFiniteSet(Symbols)
                           /\ SymbolOf \in [Orders -> Symbols]
ASSUME BoundAssumption == MaxRuns \in Nat \ {0} /\ MaxStarts \in Nat /\ MaxCrashes \in Nat

\* The sell of a symbol in a run: its client order id is made of both.
Sells == Symbols \X (1 .. MaxRuns)
Ids == Orders \cup Sells
Symbol(i) == IF i \in Orders THEN SymbolOf[i] ELSE i[1]

ASSUME IdAssumption == Orders \cap Sells = {}

VARIABLES
    book,       \* the exchange's status, "absent", or "inflight" on its way there
    held,       \* base units the account owns
    qty,        \* quantity of each sell
    late,       \* units locked when the run read the balances, or bought after
    run,        \* the run of _stop_one
    runs,       \* runs started: the nonce of the current one
    ok,         \* the last reported result
    log,        \* emergency_stop.log
    reconciled, \* emergency_reconciled: positions (hashes) of log rows
    audit,      \* the rows of audit_log copied from the log, by position
    starts, crashes

exchVars  == <<book, held, qty, late>>
auditVars == <<reconciled, audit, starts>>
vars == <<exchVars, run, runs, ok, log, auditVars, crashes>>

-----------------------------------------------------------------------------

\* _NON_TERMINAL_SELL_STATUSES; a partial fill is live and counts as NEW.
NonTerminal == {"NEW", "UNKNOWN"}
FinalStatuses == {"FILLED", "CANCELED", "EXPIRED", "REJECTED"}
Live == {i \in Ids : book[i] = "NEW"}

\* free of get_balance: what no live sell locks.
FreeUnits(s) == held[s] - MapThenSumSet(LAMBDA i : qty[i], {i \in Sells : i[1] = s} \cap Live)

\* What the run makes of query_order: None also when it failed.
Answers(i) ==
    {"none"} \cup (IF book[i] \in {"absent", "inflight", "REJECTED"} THEN {} ELSE {book[i]})
             \cup (IF i \in Live THEN {"UNKNOWN"} ELSE {})

\* A line of the log; "torn" is a line cut short by a crash (not JSON).
Rows == [action : {"emergency_cancel", "emergency_sell", "torn"}, id : Ids,
         status : NonTerminal \cup FinalStatuses]

\* entries()[-1] has no "seq" then, and append raises KeyError.
TornTail == log # <<>> /\ Last(log).action = "torn"

\* is_action_done
Logged(i) == \E n \in DOMAIN log : log[n].action = "emergency_cancel" /\ log[n].id = i

\* _latest_sell_details: the positions of the symbol's sells.
SellRows(s) == {n \in DOMAIN log : log[n].action = "emergency_sell" /\ Symbol(log[n].id) = s}

PCs == {"idle", "list", "cancel", "log", "plan", "sell", "query", "place", "await"}

Idle == [pc     |-> "idle",
         listed |-> {},                         \* open_orders
         todo   |-> {},                         \* symbols still to cancel
         keys   |-> {},                         \* cancellations still to log
         plan   |-> {},                         \* symbols still to sell
         free   |-> [s \in Symbols |-> 0],      \* their quantities
         cur    |-> CHOOSE i \in Sells : TRUE,  \* the sell in hand
         errors |-> FALSE,                      \* cancel_errors, price_errors, filter_errors
         filled |-> TRUE,                       \* not sell_not_filled
         blind  |-> FALSE]                      \* the query for a pending sell gave None

TypeOK ==
    /\ book \in [Ids -> {"absent", "inflight", "NEW"} \cup FinalStatuses]
    /\ held \in [Symbols -> Nat] /\ late \in [Symbols -> Nat]
    /\ qty \in [Sells -> Nat]
    /\ run \in [pc : PCs, listed : SUBSET Ids, todo : SUBSET Symbols, keys : SUBSET Ids,
                plan : SUBSET Symbols, free : [Symbols -> Nat], cur : Sells,
                errors : BOOLEAN, filled : BOOLEAN, blind : BOOLEAN]
    /\ runs \in 0 .. MaxRuns
    /\ ok \in BOOLEAN
    /\ log \in Seq(Rows)
    /\ reconciled \subseteq DOMAIN log
    /\ audit \in Seq(DOMAIN log)
    /\ starts \in 0 .. MaxStarts
    /\ crashes \in 0 .. MaxCrashes

\* The account holds one unit of everything.
Init ==
    /\ book = [i \in Ids |-> "absent"]
    /\ held = [s \in Symbols |-> 1]
    /\ qty = [i \in Sells |-> 0]
    /\ late = [s \in Symbols |-> 0]
    /\ run = Idle
    /\ runs = 0
    /\ ok = FALSE
    /\ log = <<>>
    /\ reconciled = {}
    /\ audit = <<>>
    /\ starts = 0
    /\ crashes = 0

At(l) == run.pc = l
Goto(l) == run' = [run EXCEPT !.pc = l]

\* The result of _stop_one; an exception on the way is a result with ok = False.
Report(result) == run' = Idle /\ ok' = result

-----------------------------------------------------------------------------
(* The run *)

\* run, _resolve_accounts: the account's turn.
StopOne ==
    /\ At("idle")
    /\ runs < MaxRuns
    /\ runs' = runs + 1
    /\ Goto("list")
    /\ UNCHANGED <<exchVars, ok, log, auditVars, crashes>>

\* get_credentials, get_all_open_orders; both may raise.  The exchange may still
\* list orders whose cancellation the log has.
ListOpenOrders ==
    /\ At("list")
    /\ \/ Report(FALSE)
       \/ \E lagging \in SUBSET {i \in Ids : book[i] = "CANCELED" /\ Logged(i)} :
            LET listed == Live \cup lagging
            IN  /\ run' = [run EXCEPT !.pc = "cancel", !.listed = listed,
                                      !.todo = {Symbol(i) : i \in listed}]
                /\ UNCHANGED ok
    /\ UNCHANGED <<exchVars, runs, log, auditVars, crashes>>

\* The keys of a symbol's orders in the log.
Keys(s) == {i \in run.listed : Symbol(i) = s}

\* Every order of a symbol is off the book.
Canceled(s) == [i \in Ids |-> IF Symbol(i) = s /\ i \in Live THEN "CANCELED" ELSE book[i]]

\* Mutant: a symbol is done once one of its orders was.
SymbolDone(s) == \E i \in Ids : Symbol(i) = s /\ Logged(i)

\* A symbol is done when every order that was listed is in the log.
CancelDone(s) == \A i \in Keys(s) : Logged(i)

\* Mutant: a failed cancellation is logged too.
CancelSymbolLogged(s) ==
    /\ At("cancel")
    /\ s \in run.todo
    /\ book' \in {book, Canceled(s)}
    /\ run' = [run EXCEPT !.todo = @ \ {s}, !.pc = "log", !.keys = Keys(s)]
    /\ UNCHANGED <<held, qty, late, runs, ok, log, auditVars, crashes>>

\* cancel_all_open_orders; a failure may hide a success.
CancelSymbol(s) ==
    LET r == [run EXCEPT !.todo = @ \ {s}]
    IN  /\ At("cancel")
        /\ s \in run.todo
        /\ \/ /\ CancelDone(s)
              /\ run' = r
              /\ UNCHANGED book
           \/ /\ ~CancelDone(s)
              /\ book' = Canceled(s)
              /\ run' = [r EXCEPT !.pc = "log", !.keys = Keys(s)]
           \/ /\ ~CancelDone(s)
              /\ book' \in {book, Canceled(s)}
              /\ run' = [r EXCEPT !.errors = TRUE]
        /\ UNCHANGED <<held, qty, late, runs, ok, log, auditVars, crashes>>

\* One line of the log, or the KeyError of a torn tail, which ends the run.
LogCancel(i) ==
    /\ At("log")
    /\ i \in run.keys
    /\ \/ TornTail /\ Report(FALSE) /\ UNCHANGED log
       \/ /\ ~TornTail
          /\ log' = Append(log, [action |-> "emergency_cancel", id |-> i, status |-> "CANCELED"])
          /\ run' = [run EXCEPT !.keys = @ \ {i},
                                !.pc = IF run.keys = {i} THEN "cancel" ELSE "log"]
          /\ UNCHANGED ok
    /\ UNCHANGED <<exchVars, runs, auditVars, crashes>>

\* get_balance; what has no price, no filters or is too small is an error.
PlanSells ==
    /\ At("cancel")
    /\ run.todo = {}
    /\ \/ Report(FALSE) /\ UNCHANGED late
       \/ \E plan \in SUBSET {s \in Symbols : FreeUnits(s) > 0} :
            /\ run' = [run EXCEPT !.pc = "plan", !.plan = plan,
                                  !.free = [s \in Symbols |-> FreeUnits(s)],
                                  !.errors = @ \/ \E s \in Symbols \ plan : FreeUnits(s) > 0]
            /\ late' = [s \in Symbols |-> held[s] - FreeUnits(s)]
            /\ UNCHANGED ok
    /\ UNCHANGED <<book, held, qty, runs, log, auditVars, crashes>>

\* A plan needs --yes or the user's confirmation.
Confirm ==
    /\ At("plan")
    /\ \/ Goto("sell") /\ UNCHANGED ok
       \/ run.plan # {} /\ Report(FALSE)
    /\ UNCHANGED <<exchVars, runs, log, auditVars, crashes>>

\* Mutant: the log is not consulted.
NextSellUnchecked(s) ==
    /\ At("sell")
    /\ s \in run.plan
    /\ run' = [run EXCEPT !.plan = @ \ {s}, !.pc = "place", !.cur = <<s, runs>>]
    /\ UNCHANGED <<exchVars, runs, ok, log, auditVars, crashes>>

\* The next symbol of the plan: was its last logged sell still pending?
NextSell(s) ==
    LET r == [run EXCEPT !.plan = @ \ {s}, !.blind = FALSE]
        prior == log[Max(SellRows(s))]
    IN  /\ At("sell")
        /\ s \in run.plan
        /\ run' = IF SellRows(s) # {} /\ prior.status \in NonTerminal
                    THEN [r EXCEPT !.pc = "query", !.cur = prior.id]
                    ELSE [r EXCEPT !.pc = "place", !.cur = <<s, runs>>]
        /\ UNCHANGED <<exchVars, runs, ok, log, auditVars, crashes>>

\* Reconcile-before-resend.
QueryPrior ==
    /\ At("query")
    /\ \E a \in Answers(run.cur) :
         run' = IF a \in NonTerminal
                  THEN [run EXCEPT !.pc = "sell", !.filled = FALSE]
                  ELSE [run EXCEPT !.pc = "place", !.cur = <<@[1], runs>>, !.blind = a = "none"]
    /\ UNCHANGED <<exchVars, runs, ok, log, auditVars, crashes>>

\* broker.place_order: the request leaves the process.
PlaceSell ==
    /\ At("place")
    /\ book' = [book EXCEPT ![run.cur] = "inflight"]
    /\ qty' = [qty EXCEPT ![run.cur] = run.free[run.cur[1]]]
    /\ Goto("await")
    /\ UNCHANGED <<held, late, runs, ok, log, auditVars, crashes>>

\* The answer, as old as the placement or as new as the order, is logged.
SellAnswered ==
    /\ At("await")
    /\ book[run.cur] \notin {"absent", "inflight", "REJECTED"}
    /\ \/ TornTail /\ Report(FALSE) /\ UNCHANGED log
       \/ /\ ~TornTail
          /\ \E status \in {"NEW", book[run.cur]} :
               /\ log' = Append(log, [action |-> "emergency_sell", id |-> run.cur,
                                      status |-> status])
               /\ run' = [run EXCEPT !.pc = "sell", !.filled = @ /\ status = "FILLED"]
          /\ UNCHANGED ok
    /\ UNCHANGED <<exchVars, runs, auditVars, crashes>>

\* A refusal or a timeout, whatever became of the request: nothing is logged.
SellFailed ==
    /\ At("await")
    /\ run' = [run EXCEPT !.pc = "sell", !.filled = FALSE]
    /\ UNCHANGED <<exchVars, runs, ok, log, auditVars, crashes>>

FinishStop ==
    /\ At("sell")
    /\ run.plan = {}
    /\ Report(~run.errors /\ run.filled)
    /\ UNCHANGED <<exchVars, runs, log, auditVars, crashes>>

\* The script is killed, perhaps in the middle of a line.
Crash ==
    /\ ~At("idle")
    /\ crashes < MaxCrashes
    /\ crashes' = crashes + 1
    /\ Report(FALSE)
    /\ \/ UNCHANGED log
       \/ /\ At("log") \/ (At("await") /\ book[run.cur] \in {"NEW", "FILLED"})
          /\ ~TornTail
          /\ log' = Append(log, [action |-> "torn", id |-> run.cur, status |-> "UNKNOWN"])
    /\ UNCHANGED <<exchVars, runs, auditVars>>

-----------------------------------------------------------------------------
(* The daemon's start *)

\* The lines that are JSON.
Whole == {n \in DOMAIN log : log[n].action # "torn"}

\* A set of positions in the order of the file.
InOrder(P) ==
    [i \in 1 .. Cardinality(P) |-> CHOOSE n \in P : Cardinality({m \in P : m < n}) = i - 1]

\* Mutant: the table of reconciled rows is not read.
ReconcileAgain ==
    /\ starts < MaxStarts
    /\ starts' = starts + 1
    /\ audit' = audit \o InOrder(Whole)
    /\ reconciled' = reconciled \cup Whole
    /\ UNCHANGED <<exchVars, run, runs, ok, log, crashes>>

\* reconcile_emergency_log: one transaction, at any time of a run.
ReconcileEmergencyLog ==
    /\ starts < MaxStarts
    /\ starts' = starts + 1
    /\ audit' = audit \o InOrder(Whole \ reconciled)
    /\ reconciled' = reconciled \cup Whole
    /\ UNCHANGED <<exchVars, run, runs, ok, log, crashes>>

-----------------------------------------------------------------------------
(* The exchange and its other clients (external) *)

Trade(i) ==
    LET buy == i \in Orders
    IN  /\ held' = [held EXCEPT ![Symbol(i)] = IF buy THEN @ + 1 ELSE @ - qty[i]]
        /\ late' = [late EXCEPT ![Symbol(i)] = IF buy THEN @ + 1 ELSE @]

\* The daemon, or the user, places an order.
ForeignOrder(o) ==
    /\ book[o] = "absent"
    /\ book' = [book EXCEPT ![o] = "NEW"]
    /\ UNCHANGED <<held, qty, late, run, runs, ok, log, auditVars, crashes>>

\* A sell is lost, refused for want of balance, or arrives.
Arrive(i) ==
    /\ book[i] = "inflight"
    /\ \/ book' = [book EXCEPT ![i] = "absent"] /\ UNCHANGED <<held, late>>
       \/ /\ FreeUnits(i[1]) < qty[i]
          /\ book' = [book EXCEPT ![i] = "REJECTED"]
          /\ UNCHANGED <<held, late>>
       \/ /\ FreeUnits(i[1]) >= qty[i]
          /\ \/ book' = [book EXCEPT ![i] = "NEW"] /\ UNCHANGED <<held, late>>
             \/ book' = [book EXCEPT ![i] = "FILLED"] /\ Trade(i)
    /\ UNCHANGED <<qty, run, runs, ok, log, auditVars, crashes>>

\* A live order trades or expires.
Progress(i) ==
    /\ i \in Live
    /\ \/ book' = [book EXCEPT ![i] = "EXPIRED"] /\ UNCHANGED <<held, late>>
       \/ book' = [book EXCEPT ![i] = "FILLED"] /\ Trade(i)
    /\ UNCHANGED <<qty, run, runs, ok, log, auditVars, crashes>>

-----------------------------------------------------------------------------

Next ==
    \/ StopOne \/ ListOpenOrders \/ PlanSells \/ Confirm \/ QueryPrior
    \/ PlaceSell \/ SellAnswered \/ SellFailed \/ FinishStop \/ Crash
    \/ \E s \in Symbols : CancelSymbol(s) \/ NextSell(s)
    \/ \E i \in Ids : LogCancel(i) \/ Progress(i)
    \/ \E i \in Sells : Arrive(i)
    \/ \E o \in Orders : ForeignOrder(o)
    \/ ReconcileEmergencyLog

Spec == Init /\ [][Next]_vars

-----------------------------------------------------------------------------
(* Properties *)

\* "`ok` is true only when there are no errors AND all sales are definitely
\* FILLED": no order the run found open is live any more, although its log may
\* have told it to skip a symbol, and what was free is sold.
OkMeansStopped ==
    [][~At("idle") /\ run'.pc = "idle" /\ ok' =>
         /\ run.listed \cap Live = {}
         /\ \A s \in Symbols : held[s] <= late[s]]_vars

\* The log names no order as cancelled that can still trade: it is off the book, be it
\* cancelled or filled before the bulk cancellation reached it, so that a later run may
\* skip it.
CancelLogTrue == \A i \in Ids : Logged(i) => i \notin Live /\ book[i] # "inflight"

\* Reconcile-before-resend: a sell that the log left pending and that is live is
\* not repeated, unless the query for it gave no answer.
PendingSellNotRepeated ==
    At("place") =>
        \A n \in SellRows(run.cur[1]) :
            n = Max(SellRows(run.cur[1])) => log[n].id \notin Live \/ run.blind

\* However often the daemon starts, before, after or in the middle of a run, the
\* audit holds the whole lines of the log in their order, each once.
AuditIsPrefix == IsPrefix(audit, InOrder(Whole))
=============================================================================
