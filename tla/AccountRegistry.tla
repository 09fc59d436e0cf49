--------------------------- MODULE AccountRegistry ---------------------------
(***************************************************************************)
(* The account registry (storage/accounts.py) with the secrets it keeps    *)
(* outside the database (storage/credentials.py) and the requests that     *)
(* depend on an account while it may be removed: an order of a real        *)
(* account, the kill switch that cancels its row, the risk policy, the     *)
(* alerts that name the account.                                           *)
(*                                                                         *)
(* An account id is drawn once.  A database transaction is one action, and *)
(* so is each stretch of a coroutine between two awaits.                   *)
(***************************************************************************)
EXTENDS Naturals, FiniteSets

CONSTANTS
    Accounts,       \* account ids, each drawn by one add_account
    Requests,       \* order requests with a key of their own
    MaxFaults       \* bound: crashes, keyring and database failures

ASSUME BoundAssumption == MaxFaults \in Nat

VARIABLES
    lock,       \* accounts.trading_lock, "none" without a row
    refs,       \* the accounts whose row was written with encrypted columns
    keyring,    \* the secrets in the OS keyring
    adding,     \* add_account of each id
    removing,   \* accounts whose row is deleted and whose secrets are not yet
    policy,     \* accounts with a row in risk_policy or risk_override
    alerts,     \* accounts some alert names in its order_spec
    pending,    \* accounts with an active row in pending_orders
    req,        \* the order requests
    orders,     \* the status of a request's order row
    book,       \* the order on the exchange
    kill,       \* close_all_positions of each account, and the lock it read
    unverified, \* orders the kill switch called cancelled without the exchange's word
    stop,       \* disable_real_trading for all accounts
    faults,
    lost        \* whether a crash or a keyring failure may have left secrets behind

regVars  == <<lock, refs, keyring, adding, removing>>
depVars  == <<policy, alerts, pending>>
reqVars  == <<req, orders, book>>
killVars == <<kill, unverified>>
vars     == <<regVars, depVars, reqVars, killVars, stop, faults, lost>>

-----------------------------------------------------------------------------

Fields == {"api_key", "api_secret"}
Secrets(a) == {a} \X Fields

\* Both references of an account can be decrypted.
Decrypts(a) == Secrets(a) \subseteq keyring

\* get_credentials: the row exists, has both references, and they resolve.
HasCredentials(a) == lock[a] # "none" /\ a \in refs /\ Decrypts(a)

\* PARTIALLY_FILLED is like NEW here, RECONCILE_REQUIRED like UNKNOWN.
_ACTIVE_ORDER_STATUSES == {"NEW", "UNKNOWN"}
OrderStatuses == _ACTIVE_ORDER_STATUSES \cup {"none", "final"}

TypeOK ==
    /\ lock \in [Accounts -> {"none", "paper", "real"}]
    /\ refs \subseteq Accounts
    /\ keyring \subseteq Accounts \X Fields
    /\ adding \in [Accounts -> {"idle", "insert", "cleanup", "done"}]
    /\ removing \subseteq Accounts
    /\ policy \subseteq Accounts /\ alerts \subseteq Accounts /\ pending \subseteq Accounts
    /\ req \in [Requests -> [pc : {"idle", "real", "policy", "insert", "broker", "post", "done"},
                             account : Accounts]]
    /\ orders \in [Requests -> OrderStatuses]
    /\ book \in [Requests -> {"none", "inflight", "live", "over"}]
    /\ kill \in [Accounts -> [pc : {"idle", "wait", "cancel", "sell"}, mode : {"paper", "real"}]]
    /\ unverified \subseteq Requests
    /\ stop \in [running : BOOLEAN, todo : SUBSET Accounts]
    /\ faults \in 0 .. MaxFaults
    /\ lost \in BOOLEAN

NoStop == [running |-> FALSE, todo |-> {}]
NoKill == [pc |-> "idle", mode |-> "paper"]

Init ==
    /\ lock = [a \in Accounts |-> "none"]
    /\ refs = {} /\ keyring = {} /\ removing = {}
    /\ adding = [a \in Accounts |-> "idle"]
    /\ policy = {} /\ alerts = {} /\ pending = {}
    /\ req \in [Requests -> [pc : {"idle"}, account : Accounts]]
    /\ orders = [r \in Requests |-> "none"]
    /\ book = [r \in Requests |-> "none"]
    /\ kill = [a \in Accounts |-> NoKill]
    /\ unverified = {}
    /\ stop = NoStop
    /\ faults = 0
    /\ lost = FALSE

Fault == faults < MaxFaults /\ faults' = faults + 1

\* secret_store.delete of both fields: best effort, a failure is only logged.
DeleteSecrets(a) ==
    \/ /\ keyring' = keyring \ Secrets(a)
       /\ UNCHANGED <<faults, lost>>
    \/ /\ Fault
       /\ lost' = TRUE
       /\ \E left \in SUBSET Secrets(a) : keyring' = keyring \ left

-----------------------------------------------------------------------------
(* add_account and remove_account *)

\* encrypt of both fields: both secrets are stored, or the keyring fails and what
\* was stored is taken back, if it can be.
Encrypt(a, ok) ==
    \/ /\ ok
       /\ keyring' = keyring \cup Secrets(a)
       /\ UNCHANGED <<faults, lost>>
    \/ /\ ~ok
       /\ Fault
       /\ \/ UNCHANGED <<keyring, lost>>
          \/ keyring' = keyring \cup {<<a, "api_key">>} /\ lost' = TRUE

\* add_account up to its await, of a public account or of one with credentials.
AddAccount(a) ==
    /\ adding[a] = "idle"
    /\ \/ /\ adding' = [adding EXCEPT ![a] = "insert"]
          /\ UNCHANGED <<keyring, faults, lost>>
       \/ \E ok \in BOOLEAN :
             /\ Encrypt(a, ok)
             /\ adding' = [adding EXCEPT ![a] = IF ok THEN "insert" ELSE "done"]
    /\ UNCHANGED <<lock, refs, removing, depVars, reqVars, killVars, stop>>

\* The transaction _insert commits or fails.
InsertAccount(a) ==
    /\ adding[a] = "insert"
    /\ \/ /\ lock' = [lock EXCEPT ![a] = "paper"]
          /\ refs' = IF Decrypts(a) THEN refs \cup {a} ELSE refs
          /\ adding' = [adding EXCEPT ![a] = "done"]
          /\ UNCHANGED faults
       \/ /\ Fault
          /\ adding' = [adding EXCEPT ![a] = "cleanup"]
          /\ UNCHANGED <<lock, refs>>
    /\ UNCHANGED <<keyring, removing, depVars, reqVars, killVars, stop, lost>>

\* Mutant: the reference that was created last is forgotten.
AddCleanupOneField(a) ==
    /\ adding[a] = "cleanup"
    /\ adding' = [adding EXCEPT ![a] = "done"]
    /\ keyring' = keyring \ {<<a, "api_key">>}
    /\ UNCHANGED <<lock, refs, removing, depVars, reqVars, killVars, stop, faults, lost>>

\* The except branches around the insert.
AddCleanup(a) ==
    /\ adding[a] = "cleanup"
    /\ adding' = [adding EXCEPT ![a] = "done"]
    /\ DeleteSecrets(a)
    /\ UNCHANGED <<lock, refs, removing, depVars, reqVars, killVars, stop>>

\* Mutant: an order whose fate is unknown does not count as open.
NotInUseByKnownOrders(a) ==
    /\ lock[a] # "real"
    /\ \A r \in Requests : req[r].account = a => orders[r] # "NEW"
    /\ a \notin pending
    /\ a \notin policy

\* _removal_reasons is empty.
NotInUse(a) ==
    /\ lock[a] # "real"
    /\ \A r \in Requests : req[r].account = a => orders[r] \notin _ACTIVE_ORDER_STATUSES
    /\ a \notin pending
    /\ a \notin policy

\* Mutant: the secrets go before the transaction has decided.
RemoveSecretsFirst(a) ==
    /\ lock[a] # "none"
    /\ keyring' = keyring \ Secrets(a)
    /\ lock' = [lock EXCEPT ![a] = IF NotInUse(a) THEN "none" ELSE @]
    /\ removing' = IF NotInUse(a) THEN removing \cup {a} ELSE removing
    /\ UNCHANGED <<refs, adding, depVars, reqVars, killVars, stop, faults, lost>>

\* The transaction _remove: checks and delete are one commit; a refusal and a
\* missing row change nothing.
RemoveAccount(a) ==
    /\ lock[a] # "none"
    /\ NotInUse(a)
    /\ lock' = [lock EXCEPT ![a] = "none"]
    /\ removing' = removing \cup {a}
    /\ UNCHANGED <<refs, keyring, adding, depVars, reqVars, killVars, stop, faults, lost>>

\* The secrets follow the committed delete.
RemoveCleanup(a) ==
    /\ a \in removing
    /\ removing' = removing \ {a}
    /\ DeleteSecrets(a)
    /\ UNCHANGED <<lock, refs, adding, depVars, reqVars, killVars, stop>>

-----------------------------------------------------------------------------
(* The trading lock *)

EnableRealTrading(a) ==
    /\ lock[a] = "paper"
    /\ a \in refs
    /\ lock' = [lock EXCEPT ![a] = "real"]
    /\ UNCHANGED <<refs, keyring, adding, removing, depVars, reqVars, killVars, stop, faults, lost>>

DisableRealTrading(a) ==
    /\ lock[a] = "real"
    /\ lock' = [lock EXCEPT ![a] = "paper"]
    /\ UNCHANGED <<refs, keyring, adding, removing, depVars, reqVars, killVars, stop, faults, lost>>

\* disable_real_trading_handler with account_id = "all": list_accounts.
DisableAll ==
    /\ ~stop.running
    /\ stop' = [running |-> TRUE, todo |-> {a \in Accounts : lock[a] # "none"}]
    /\ UNCHANGED <<regVars, depVars, reqVars, killVars, faults, lost>>

\* One iteration of its loop; a removed account raises and ends it.
DisableNext(a) ==
    /\ a \in stop.todo
    /\ \/ /\ lock[a] # "none"
          /\ lock' = [lock EXCEPT ![a] = "paper"]
          /\ stop' = [stop EXCEPT !.todo = @ \ {a}]
       \/ /\ lock[a] = "none"
          /\ stop' = NoStop
          /\ UNCHANGED lock
    /\ UNCHANGED <<refs, keyring, adding, removing, depVars, reqVars, killVars, faults, lost>>

\* The handler answers that every account was switched.
DisableAllDone ==
    /\ stop.running
    /\ stop.todo = {}
    /\ stop' = NoStop
    /\ UNCHANGED <<regVars, depVars, reqVars, killVars, faults, lost>>

-----------------------------------------------------------------------------
(* What else refers to an account *)

\* set_risk_policy, override_risk_policy: the account is looked up in the
\* transaction that inserts the row.  No operation deletes the row.
SetRiskPolicy(a) ==
    /\ lock[a] # "none"
    /\ a \notin policy
    /\ policy' = policy \cup {a}
    /\ UNCHANGED <<regVars, alerts, pending, reqVars, killVars, stop, faults, lost>>

\* create_alert with an order_spec: its account is not looked up.
CreateAlert(a) ==
    /\ a \notin alerts
    /\ alerts' = alerts \cup {a}
    /\ UNCHANGED <<regVars, policy, pending, reqVars, killVars, stop, faults, lost>>

\* delete_alert
DeleteAlert(a) ==
    /\ a \in alerts
    /\ alerts' = alerts \ {a}
    /\ UNCHANGED <<regVars, policy, pending, reqVars, killVars, stop, faults, lost>>

\* _maybe_trigger inserts the record for approval, whether the account exists or not.
MaybeTrigger(a) ==
    /\ a \in alerts
    /\ a \notin pending
    /\ pending' = pending \cup {a}
    /\ UNCHANGED <<regVars, policy, alerts, reqVars, killVars, stop, faults, lost>>

\* The record is approved and settled, or rejected (module PendingApproval).
SettlePending(a) ==
    /\ a \in pending
    /\ pending' = pending \ {a}
    /\ UNCHANGED <<regVars, policy, alerts, reqVars, killVars, stop, faults, lost>>

-----------------------------------------------------------------------------
(* An order of a real account *)

Goto(r, l) == req' = [req EXCEPT ![r].pc = l]

RequestsOf(a) == {r \in Requests : req[r].account = a}

\* Nobody holds the account's asyncio.Lock.
LockFree(a) ==
    /\ kill[a].pc \in {"idle", "wait"}
    /\ \A r \in RequestsOf(a) : req[r].pc \in {"idle", "done"}

\* get_account, under the account's lock; a paper account's order stays in the
\* database.
GetAccount(r) ==
    /\ req[r].pc = "idle"
    /\ LockFree(req[r].account)
    /\ lock[req[r].account] = "real"
    /\ Goto(r, "real")
    /\ UNCHANGED <<regVars, depVars, orders, book, killVars, stop, faults, lost>>

\* _is_real: get_credentials raises or the request goes on as a real one.
IsReal(r) ==
    /\ req[r].pc = "real"
    /\ Goto(r, IF HasCredentials(req[r].account) THEN "policy" ELSE "done")
    /\ UNCHANGED <<regVars, depVars, orders, book, killVars, stop, faults, lost>>

\* get_policy raises for an account that is gone.
GetPolicy(r) ==
    /\ req[r].pc = "policy"
    /\ Goto(r, IF lock[req[r].account] = "none" THEN "done" ELSE "insert")
    /\ UNCHANGED <<regVars, depVars, orders, book, killVars, stop, faults, lost>>

\* _insert_order: the row names the account that was read; nothing is looked up.
InsertOrder(r) ==
    /\ req[r].pc = "insert"
    /\ orders' = [orders EXCEPT ![r] = "NEW"]
    /\ Goto(r, "broker")
    /\ UNCHANGED <<regVars, depVars, book, killVars, stop, faults, lost>>

\* _signed_request_url reads the credentials again; without them place_order
\* raises and the row becomes UNKNOWN.
SignRequest(r) ==
    /\ req[r].pc = "broker"
    /\ \/ /\ HasCredentials(req[r].account)
          /\ Goto(r, "post")
          /\ UNCHANGED orders
       \/ /\ ~HasCredentials(req[r].account)
          /\ Goto(r, "done")
          /\ orders' = [orders EXCEPT ![r] = "UNKNOWN"]
    /\ UNCHANGED <<regVars, depVars, book, killVars, stop, faults, lost>>

\* The request is sent: accepted, rejected, or timed out and then live, lost or
\* still on its way (module OrderExecution has the steps between).
PostOrder(r) ==
    /\ req[r].pc = "post"
    /\ Goto(r, "done")
    /\ \E outcome \in {<<"NEW", "live">>, <<"UNKNOWN", "live">>, <<"UNKNOWN", "inflight">>,
                       <<"UNKNOWN", "none">>, <<"final", "over">>} :
         /\ orders' = [orders EXCEPT ![r] = outcome[1]]
         /\ book' = [book EXCEPT ![r] = outcome[2]]
    /\ UNCHANGED <<regVars, depVars, killVars, stop, faults, lost>>

\* The exchange receives an order that was on its way, or is through with one.
ExchangeStep(r) ==
    /\ \/ book[r] = "inflight" /\ book' = [book EXCEPT ![r] = "live"]
       \/ book[r] = "live" /\ book' = [book EXCEPT ![r] = "over"]
    /\ UNCHANGED <<regVars, depVars, req, orders, killVars, stop, faults, lost>>

\* A retry or a restart reads a final status of a real account's order.
SyncOrder(r) ==
    /\ orders[r] \in _ACTIVE_ORDER_STATUSES
    /\ LockFree(req[r].account)
    /\ book[r] = "over"
    /\ lock[req[r].account] = "real" /\ HasCredentials(req[r].account)
    /\ orders' = [orders EXCEPT ![r] = "final"]
    /\ UNCHANGED <<regVars, depVars, req, book, killVars, stop, faults, lost>>

-----------------------------------------------------------------------------
(* The kill switch, as far as it decides on an order's row *)

\* The rows it cancels; UNKNOWN is not among them.
Targets(a) == {r \in RequestsOf(a) : orders[r] = "NEW"}

\* close_all_positions reads the account, and then waits for its lock.  It visits one
\* account after the other; bound: one call at a time.
CloseAllPositions(a) ==
    /\ \A b \in Accounts : kill[b].pc = "idle"
    /\ lock[a] # "none"
    /\ kill' = [kill EXCEPT ![a] = [pc |-> "wait", mode |-> lock[a]]]
    /\ UNCHANGED <<regVars, depVars, reqVars, unverified, stop, faults, lost>>

\* _close_one up to its list of targets: it trusts the trading lock that was read
\* before; of a real account the credentials and the exchange's list may fail.
CloseOne(a) ==
    /\ kill[a].pc = "wait"
    /\ LockFree(a)
    /\ \/ /\ kill[a].mode = "real" => HasCredentials(a)
          /\ kill' = [kill EXCEPT ![a].pc = "cancel"]
       \/ /\ kill[a].mode = "real"
          /\ kill' = [kill EXCEPT ![a] = NoKill]
    /\ UNCHANGED <<regVars, depVars, reqVars, unverified, stop, faults, lost>>

\* _cancel_one: the exchange ends the order, or had ended it, and says so; or the call
\* fails and may have been carried out; or the exchange has no such order (-2011) and
\* the query finds none or fails, which also counts as cancelled.
CancelOne(r) ==
    /\ kill[req[r].account] = [pc |-> "cancel", mode |-> "real"]
    /\ orders[r] = "NEW"
    /\ \/ /\ book[r] \in {"live", "over"}
          /\ orders' = [orders EXCEPT ![r] = "final"]
          /\ book' = [book EXCEPT ![r] = "over"]
          /\ UNCHANGED unverified
       \/ /\ orders' = [orders EXCEPT ![r] = "UNKNOWN"]
          /\ \/ UNCHANGED book
             \/ book[r] = "live" /\ book' = [book EXCEPT ![r] = "over"]
          /\ UNCHANGED unverified
       \/ /\ book[r] # "live"
          /\ orders' = [orders EXCEPT ![r] = "final"]
          /\ unverified' = unverified \cup {r}
          /\ UNCHANGED book
    /\ UNCHANGED <<regVars, depVars, req, kill, stop, faults, lost>>

\* Of an account that was read as paper, also one that was real when the order was
\* sent, the row is cancelled and the exchange is not asked.
CancelLocally(r) ==
    /\ kill[req[r].account] = [pc |-> "cancel", mode |-> "paper"]
    /\ orders[r] = "NEW"
    /\ orders' = [orders EXCEPT ![r] = "final"]
    /\ unverified' = unverified \cup {r}
    /\ UNCHANGED <<regVars, depVars, req, book, kill, stop, faults, lost>>

\* The loop over the targets ends; a paper account has nothing to sell.
CancelsDone(a) ==
    /\ kill[a].pc = "cancel"
    /\ Targets(a) = {}
    /\ kill' = [kill EXCEPT ![a] = IF kill[a].mode = "paper" THEN NoKill ELSE [@ EXCEPT !.pc = "sell"]]
    /\ UNCHANGED <<regVars, depVars, reqVars, unverified, stop, faults, lost>>

\* A sell goes straight to _place_and_record, with the account as it was read.
CloseSell(r) ==
    /\ kill[req[r].account].pc = "sell"
    /\ \A q \in RequestsOf(req[r].account) : req[q].pc \in {"idle", "done"}
    /\ req[r].pc = "idle"
    /\ Goto(r, "insert")
    /\ UNCHANGED <<regVars, depVars, orders, book, killVars, stop, faults, lost>>

\* The account is done with, or a call before the next sell raises.
CloseEnd(a) ==
    /\ kill[a].pc = "sell"
    /\ \A r \in RequestsOf(a) : req[r].pc \in {"idle", "done"}
    /\ kill' = [kill EXCEPT ![a] = NoKill]
    /\ UNCHANGED <<regVars, depVars, reqVars, unverified, stop, faults, lost>>

\* The daemon dies: coroutines are gone, the database, the keyring and what is
\* at the exchange stay; a request that was sent may still be on its way.
Crash ==
    /\ Fault
    /\ adding' = [a \in Accounts |-> IF adding[a] = "idle" THEN "idle" ELSE "done"]
    /\ removing' = {}
    /\ req' = [r \in Requests |-> [req[r] EXCEPT !.pc = IF @ = "idle" THEN @ ELSE "done"]]
    /\ \E sent \in SUBSET {r \in Requests : req[r].pc = "post"} :
         book' = [r \in Requests |-> IF r \in sent THEN "inflight" ELSE book[r]]
    /\ kill' = [a \in Accounts |-> NoKill]
    /\ stop' = NoStop
    /\ lost' = TRUE
    /\ UNCHANGED <<lock, refs, keyring, depVars, orders, unverified>>

-----------------------------------------------------------------------------

Next ==
    \/ \E a \in Accounts :
         \/ AddAccount(a) \/ InsertAccount(a) \/ AddCleanup(a)
         \/ RemoveAccount(a) \/ RemoveCleanup(a)
         \/ EnableRealTrading(a) \/ DisableRealTrading(a) \/ DisableNext(a)
         \/ SetRiskPolicy(a) \/ CreateAlert(a) \/ DeleteAlert(a) \/ MaybeTrigger(a) \/ SettlePending(a)
         \/ CloseAllPositions(a) \/ CloseOne(a) \/ CancelsDone(a) \/ CloseEnd(a)
    \/ \E r \in Requests :
         \/ GetAccount(r) \/ IsReal(r) \/ GetPolicy(r) \/ InsertOrder(r) \/ SignRequest(r)
         \/ PostOrder(r) \/ ExchangeStep(r) \/ SyncOrder(r)
         \/ CancelOne(r) \/ CancelLocally(r) \/ CloseSell(r)
    \/ DisableAll \/ DisableAllDone \/ Crash

Spec == Init /\ [][Next]_vars

-----------------------------------------------------------------------------
(* Properties *)

\* Every account that claims credentials can use them: the two stores, the
\* keyring and the database, are written in an order that no failure, refusal or
\* crash between them can leave a row with a dangling reference.
CredentialsPresent ==
    \A a \in Accounts : lock[a] # "none" /\ a \in refs => Decrypts(a)

\* No secret outlives its account, except where a crash or the keyring itself
\* kept a cleanup from running.
SecretsSwept ==
    ~lost => \A a \in Accounts :
        keyring \cap Secrets(a) # {} =>
            lock[a] # "none" \/ adding[a] \in {"insert", "cleanup"} \/ a \in removing

\* An order that is live or on its way can still be managed: its account exists,
\* its credentials can be read and its row is open, although the account may be
\* switched to paper, closed and removed at any moment of the request.  The one way
\* to lose it is the kill switch's word that it is cancelled, given without the
\* exchange's: locally for an account read as paper, or after -2011 and a query that
\* found nothing.
LiveOrderReachable ==
    \A r \in Requests \ unverified : book[r] \in {"inflight", "live"} =>
        HasCredentials(req[r].account) /\ orders[r] \in _ACTIVE_ORDER_STATUSES
=============================================================================
