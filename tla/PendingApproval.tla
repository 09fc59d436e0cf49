--------------------------- MODULE PendingApproval ---------------------------
(***************************************************************************)
(* Alerts that create orders for approval, and their execution             *)
(* (pa/alarms.py, approve_pending_order_handler of daemon/handlers.py).    *)
(*                                                                         *)
(* A triggered alert leaves a record in pending_orders; an approval claims *)
(* it, runs execute_on_accounts with the key pending:<order_id> and        *)
(* settles the record; a restart recovers the records left in `executing`. *)
(* A record is identified by its alert and the data window (trigger_key)   *)
(* that created it.  Every alert carries an order_spec.                    *)
(***************************************************************************)
EXTENDS Naturals, FiniteSets

CONSTANTS
    Alerts,
    Windows,            \* data windows an analysis may be about (trigger_key)
    Cooldown,           \* cooldown_seconds of each alert
    Evaluators,         \* tasks that evaluate alerts: the PA worker, the alarm loop, tools
    Approvers,          \* concurrent approve_pending_order requests
    stale_after_seconds,
    MaxTime,            \* bound: the clock
    MaxCrashes          \* bound: daemon crashes

ASSUME AlertAssumption == Alerts # {} /\ Windows # {}
ASSUME TimeAssumption == /\ Cooldown \in [Alerts -> Nat]
                         /\ stale_after_seconds \in Nat
                         /\ MaxTime \in Nat \ {0}
                         /\ MaxCrashes \in Nat

VARIABLES
    clock,          \* time.time()
    alerts,         \* the alerts that exist
    cooldown_until, \* alerts.cooldown_until, 0 for NULL
    triggered,      \* triggered_alerts: record -> triggered_at
    pending,        \* pending_orders.status, "none" without a record
    started,        \* pending_orders.execution_started_at
    orders,         \* status of the row with key pending:<order_id>, "none" without it
    executions,     \* calls of execute_on_accounts per record
    ev,             \* the evaluator tasks
    ap,             \* the approve requests
    phase,          \* "starting" (startup reconcile) or "serving"
    todo,           \* `records` of reconcile_pending_executions it has not come to
    crashes

alertVars   == <<alerts, cooldown_until, triggered>>
pendingVars == <<pending, started>>
startVars   == <<phase, todo>>
vars == <<clock, alertVars, pendingVars, orders, executions, ev, ap, startVars, crashes>>

-----------------------------------------------------------------------------

Records == Alerts \X Windows

OpenOrder == {"NEW", "PARTIALLY_FILLED", "UNKNOWN"}
_PENDING_DEFINITE_SUCCESS  == {"FILLED", "paper"}
_PENDING_DEFINITE_REJECTED == {"REJECTED", "CANCELED", "EXPIRED"}
OrderStatuses == OpenOrder \cup _PENDING_DEFINITE_SUCCESS \cup _PENDING_DEFINITE_REJECTED

PendingStatuses == {"none", "awaiting_approval", "executing", "executed", "rejected",
                    "reconcile_required"}

\* What execute_on_accounts gives back: the status of the order, or an error
\* before any order was placed (its code transient, or not).
Results == OrderStatuses \cup {"transient", "permanent"}

AnyRecord == CHOOSE p \in Records : TRUE
IdleEvaluator == [busy |-> FALSE, record |-> AnyRecord, now |-> 0]
IdleApprover  == [pc |-> "idle", record |-> AnyRecord, result |-> "UNKNOWN"]

TypeOK ==
    /\ clock \in 1 .. MaxTime
    /\ alerts \subseteq Alerts
    /\ cooldown_until \in [Alerts -> Nat]
    /\ triggered \in [Records -> 0 .. MaxTime]
    /\ pending \in [Records -> PendingStatuses]
    /\ started \in [Records -> 0 .. MaxTime]
    /\ orders \in [Records -> OrderStatuses \cup {"none"}]
    /\ executions \in [Records -> Nat]
    /\ ev \in [Evaluators -> [busy : BOOLEAN, record : Records, now : 0 .. MaxTime]]
    /\ ap \in [Approvers -> [pc : {"idle", "claim", "execute", "placing", "settle"},
                             record : Records, result : Results]]
    /\ phase \in {"starting", "serving"}
    /\ todo \subseteq Records
    /\ crashes \in 0 .. MaxCrashes

Init ==
    /\ clock = 1
    /\ alerts = Alerts
    /\ cooldown_until = [a \in Alerts |-> 0]
    /\ triggered = [p \in Records |-> 0]
    /\ pending = [p \in Records |-> "none"]
    /\ started = [p \in Records |-> 0]
    /\ orders = [p \in Records |-> "none"]
    /\ executions = [p \in Records |-> 0]
    /\ ev = [e \in Evaluators |-> IdleEvaluator]
    /\ ap = [t \in Approvers |-> IdleApprover]
    /\ phase = "serving"
    /\ todo = {}
    /\ crashes = 0

-----------------------------------------------------------------------------
(* Alerts *)

\* _lazy_state = "armed"
Armed(a, now) == now >= cooldown_until[a]

\* on_analysis_updated, evaluate_symbol, _evaluate_composite: an alert that is
\* armed and matches; _maybe_trigger reads the clock before its transaction.
EvaluateAlert(e, p) ==
    /\ ~ev[e].busy
    /\ p[1] \in alerts
    /\ Armed(p[1], clock)
    /\ ev' = [ev EXCEPT ![e] = [busy |-> TRUE, record |-> p, now |-> clock]]
    /\ UNCHANGED <<clock, alertVars, pendingVars, orders, executions, ap, startVars, crashes>>

\* Mutant: the transaction trusts the state that was read before it.
MaybeTriggerUnchecked(e) ==
    LET p == ev[e].record
        a == p[1]
        now == ev[e].now
    IN  /\ ev[e].busy
        /\ ev' = [ev EXCEPT ![e] = IdleEvaluator]
        /\ \/ /\ triggered[p] = 0
              /\ triggered' = [triggered EXCEPT ![p] = now]
              /\ pending' = [pending EXCEPT ![p] = "awaiting_approval"]
              /\ cooldown_until' = [cooldown_until EXCEPT ![a] = now + Cooldown[a]]
           \/ /\ triggered[p] # 0
              /\ UNCHANGED <<triggered, pending, cooldown_until>>
        /\ UNCHANGED <<clock, alerts, started, orders, executions, ap, startVars, crashes>>

\* The transaction of _maybe_trigger: state and dedup are checked again, and
\* the trigger, the record for approval and the cooldown are one commit.
MaybeTrigger(e) ==
    LET p == ev[e].record
        a == p[1]
        now == ev[e].now
    IN  /\ ev[e].busy
        /\ ev' = [ev EXCEPT ![e] = IdleEvaluator]
        /\ \/ /\ a \in alerts /\ Armed(a, now) /\ triggered[p] = 0
              /\ triggered' = [triggered EXCEPT ![p] = now]
              /\ pending' = [pending EXCEPT ![p] = "awaiting_approval"]
              /\ cooldown_until' = [cooldown_until EXCEPT
                                      ![a] = IF Cooldown[a] > 0 THEN now + Cooldown[a] ELSE 0]
           \/ /\ a \notin alerts \/ ~Armed(a, now) \/ triggered[p] # 0
              /\ UNCHANGED <<triggered, pending, cooldown_until>>
        /\ UNCHANGED <<clock, alerts, started, orders, executions, ap, startVars, crashes>>

\* delete_alert: the records it created stay.
DeleteAlert(a) ==
    /\ phase = "serving"
    /\ a \in alerts
    /\ alerts' = alerts \ {a}
    /\ UNCHANGED <<clock, cooldown_until, triggered, pendingVars, orders, executions, ev, ap,
                   startVars, crashes>>

-----------------------------------------------------------------------------
(* Approval *)

\* approve_pending_order_handler up to its claim: the status is read here; the
\* market price, the inputs or the stop may be missing, and then it raises and
\* the record stays as it is.
ApprovePendingOrder(t, p) ==
    /\ phase = "serving"
    /\ ap[t].pc = "idle"
    /\ pending[p] = "awaiting_approval"
    /\ ap' = [ap EXCEPT ![t] = [IdleApprover EXCEPT !.pc = "claim", !.record = p]]
    /\ UNCHANGED <<clock, alertVars, pendingVars, orders, executions, ev, startVars, crashes>>

\* Mutant: the status is set without being compared.
ClaimAnyway(t) ==
    /\ ap[t].pc = "claim"
    /\ pending' = [pending EXCEPT ![ap[t].record] = "executing"]
    /\ started' = [started EXCEPT ![ap[t].record] = clock]
    /\ ap' = [ap EXCEPT ![t].pc = "execute"]
    /\ UNCHANGED <<clock, alertVars, orders, executions, ev, startVars, crashes>>

\* approve_and_claim_pending_execution: two compare-and-set updates in one
\* transaction; the loser raises INVALID_REQUEST.
ClaimExecution(t) ==
    LET p == ap[t].record
    IN  /\ ap[t].pc = "claim"
        /\ \/ /\ pending[p] = "awaiting_approval"
              /\ pending' = [pending EXCEPT ![p] = "executing"]
              /\ started' = [started EXCEPT ![p] = clock]
              /\ ap' = [ap EXCEPT ![t].pc = "execute"]
           \/ /\ pending[p] # "awaiting_approval"
              /\ ap' = [ap EXCEPT ![t] = IdleApprover]
              /\ UNCHANGED pendingVars
        /\ UNCHANGED <<clock, alertVars, orders, executions, ev, startVars, crashes>>

\* execute_on_accounts with the record's key (module OrderExecution), which no
\* other request uses: a check fails, or a row is inserted.
ExecuteOnAccounts(t) ==
    LET p == ap[t].record
        Return(result) == ap' = [ap EXCEPT ![t].pc = "settle", ![t].result = result]
    IN  /\ ap[t].pc = "execute"
        /\ executions' = [executions EXCEPT ![p] = @ + 1]
        /\ orders[p] = "none"
        /\ \/ /\ \E result \in {"transient", "permanent", "UNKNOWN"} : Return(result)
              /\ UNCHANGED orders
           \/ /\ orders' = [orders EXCEPT ![p] = "NEW"]
              /\ ap' = [ap EXCEPT ![t].pc = "placing"]
           \/ /\ orders' = [orders EXCEPT ![p] = "paper"]
              /\ Return("paper")
        /\ UNCHANGED <<clock, alertVars, pendingVars, ev, startVars, crashes>>

\* The broker's answer is written into the row and returned.
OrderPlaced(t) ==
    /\ ap[t].pc = "placing"
    /\ \E s \in OrderStatuses \ {"paper"} :
         /\ orders' = [orders EXCEPT ![ap[t].record] = s]
         /\ ap' = [ap EXCEPT ![t].pc = "settle", ![t].result = s]
    /\ UNCHANGED <<clock, alertVars, pendingVars, executions, ev, startVars, crashes>>

\* Mutant: an accepted order counts as a success.
SettledWhenAccepted(result) ==
    IF result \in _PENDING_DEFINITE_SUCCESS \cup {"NEW"} THEN "executed"
    ELSE IF result \in _PENDING_DEFINITE_REJECTED \cup {"permanent"} THEN "rejected"
    ELSE "reconcile_required"

\* The status a result settles a record with: only a fill or a simulation is a
\* success, a transient error and an order that may still trade are not final.
Settled(result) ==
    IF result \in _PENDING_DEFINITE_SUCCESS THEN "executed"
    ELSE IF result \in _PENDING_DEFINITE_REJECTED \cup {"permanent"} THEN "rejected"
    ELSE "reconcile_required"

\* complete_pending_execution / fail_pending_execution: compare-and-set from
\* `executing`.
Settle(p, result) ==
    pending' = [pending EXCEPT ![p] = IF @ = "executing" THEN Settled(result) ELSE @]

\* The rest of the handler.
SettleExecution(t) ==
    /\ ap[t].pc = "settle"
    /\ Settle(ap[t].record, ap[t].result)
    /\ ap' = [ap EXCEPT ![t] = IdleApprover]
    /\ UNCHANGED <<clock, alertVars, started, orders, executions, ev, startVars, crashes>>

\* Mutant: any record can be rejected.
RejectAnyRecord(p) ==
    /\ phase = "serving"
    /\ pending[p] # "none"
    /\ pending' = [pending EXCEPT ![p] = "rejected"]
    /\ UNCHANGED <<clock, alertVars, started, orders, executions, ev, ap, startVars, crashes>>

\* reject_pending_order: compare-and-set from `awaiting_approval`.
RejectPendingOrder(p) ==
    /\ phase = "serving"
    /\ pending[p] = "awaiting_approval"
    /\ pending' = [pending EXCEPT ![p] = "rejected"]
    /\ UNCHANGED <<clock, alertVars, started, orders, executions, ev, ap, startVars, crashes>>

-----------------------------------------------------------------------------
(* Other writers of the orders table, crashes, time *)

\* The kill switch or a retry syncs an open row while no request holds the lock.
SyncOrder(p) ==
    /\ phase = "serving"
    /\ orders[p] \in OpenOrder
    /\ \A t \in Approvers : ~(ap[t].pc = "placing" /\ ap[t].record = p)
    /\ \E s \in OrderStatuses \ {"paper"} : orders' = [orders EXCEPT ![p] = s]
    /\ UNCHANGED <<clock, alertVars, pendingVars, executions, ev, ap, startVars, crashes>>

\* A crash, and the start after it up to the end of reconcile_open_orders,
\* which may leave an open row or find out how its order stands.
Restart ==
    /\ crashes < MaxCrashes
    /\ crashes' = crashes + 1
    /\ ev' = [e \in Evaluators |-> IdleEvaluator]
    /\ ap' = [t \in Approvers |-> IdleApprover]
    /\ phase' = "starting"
    /\ todo' = {p \in Records : pending[p] = "executing"}
    /\ \E open \in SUBSET {p \in Records : orders[p] \in OpenOrder}, s \in OrderStatuses \ {"paper"} :
         orders' = [p \in Records |-> IF p \in open THEN s ELSE orders[p]]
    /\ UNCHANGED <<clock, alertVars, pendingVars, executions>>

\* Mutant: a fresh record is passed over although its order exists.
ReconcileStaleOnly(p) ==
    /\ phase = "starting"
    /\ p \in todo
    /\ todo' = todo \ {p}
    /\ IF clock - started[p] > stale_after_seconds
         THEN Settle(p, IF orders[p] = "none" THEN "UNKNOWN" ELSE orders[p])
         ELSE UNCHANGED pending
    /\ UNCHANGED <<clock, alertVars, started, orders, executions, ev, ap, phase, crashes>>

\* reconcile_pending_executions, one record: the order row decides; without
\* one only a record older than the threshold is given up.
ReconcilePending(p) ==
    /\ phase = "starting"
    /\ p \in todo
    /\ todo' = todo \ {p}
    /\ \/ orders[p] # "none" /\ Settle(p, orders[p])
       \/ /\ orders[p] = "none"
          /\ clock - started[p] > stale_after_seconds
          /\ Settle(p, "UNKNOWN")
       \/ /\ orders[p] = "none"
          /\ clock - started[p] <= stale_after_seconds
          /\ UNCHANGED pending
    /\ UNCHANGED <<clock, alertVars, started, orders, executions, ev, ap, phase, crashes>>

\* The HTTP server starts after the reconcile: after its last record, or after an
\* exception (of the database), which is logged and leaves the rest unvisited.
Serve ==
    /\ phase = "starting"
    /\ phase' = "serving"
    /\ UNCHANGED <<clock, alertVars, pendingVars, orders, executions, ev, ap, todo, crashes>>

Tick ==
    /\ clock < MaxTime
    /\ clock' = clock + 1
    /\ UNCHANGED <<alertVars, pendingVars, orders, executions, ev, ap, startVars, crashes>>

-----------------------------------------------------------------------------

ApproverStep(t) ==
    ClaimExecution(t) \/ ExecuteOnAccounts(t) \/ OrderPlaced(t) \/ SettleExecution(t)

Next ==
    \/ \E e \in Evaluators : MaybeTrigger(e) \/ \E p \in Records : EvaluateAlert(e, p)
    \/ \E a \in Alerts : DeleteAlert(a)
    \/ \E t \in Approvers : ApproverStep(t) \/ \E p \in Records : ApprovePendingOrder(t, p)
    \/ \E p \in Records : RejectPendingOrder(p) \/ SyncOrder(p) \/ ReconcilePending(p)
    \/ Restart \/ Serve \/ Tick

Spec == Init /\ [][Next]_vars

-----------------------------------------------------------------------------
(* Properties *)

Working(p) == \E t \in Approvers : ap[t].record = p /\ ap[t].pc \in {"execute", "placing", "settle"}

\* Two approvals of one record, or one before and one after a crash, never both
\* run execute_on_accounts: the claim is taken once and never given back.
ExecutedOnce == \A p \in Records : executions[p] <= 1

\* The status of a record agrees with the order it stands for: `executed` only
\* for a fill or a simulation, `rejected` only when no order can trade.
PendingAgrees ==
    \A p \in Records :
        /\ pending[p] = "executed" => orders[p] \in _PENDING_DEFINITE_SUCCESS
        /\ pending[p] = "rejected" => orders[p] \in _PENDING_DEFINITE_REJECTED \cup {"none"}

\* A record left in `executing` belongs to a request that still works on it, or has
\* placed no order, or the restart has not come to it: a crash after the insert is
\* found by every restart whose reconcile gets as far as the record.
ExecutingOwned ==
    \A p \in Records :
        pending[p] = "executing" => Working(p) \/ orders[p] = "none" \/ p \in todo

\* Two triggers of one alert are at least its cooldown apart, although every
\* evaluator decides with a clock it read before its transaction.
CooldownKept ==
    \A p, q \in Records :
        p # q /\ p[1] = q[1] /\ triggered[p] # 0 /\ triggered[q] # 0 =>
            \/ triggered[p] >= triggered[q] + Cooldown[p[1]]
            \/ triggered[q] >= triggered[p] + Cooldown[p[1]]

\* A decided record is decided for good, whatever a late handler or the restart
\* still wants to write.
DecisionsStay ==
    [][\A p \in Records : pending[p] \in {"executed", "rejected"} => pending'[p] = pending[p]]_pending
=============================================================================
