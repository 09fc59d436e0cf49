------------------------ MODULE PendingApprovalProofs ------------------------
(***************************************************************************)
(* Proofs about alerts and pending orders, for any number of alerts, data  *)
(* windows, evaluators and approve requests, and any bound on the clock    *)
(* and on crashes.                                                         *)
(***************************************************************************)
EXTENDS PendingApproval, TLAPS

-----------------------------------------------------------------------------
(* The inductive invariant *)

WorkPCs == {"execute", "placing", "settle"}

\* A claim is held by one request, and only while the daemon serves.
ClaimInv ==
    /\ \A t \in Approvers : ap[t].pc \in WorkPCs => pending[ap[t].record] = "executing"
    /\ \A t, u \in Approvers :
          ap[t].pc \in WorkPCs /\ ap[u].pc \in WorkPCs /\ ap[t].record = ap[u].record => t = u
    /\ phase = "starting" => \A t \in Approvers : ap[t].pc = "idle"

\* What was placed for a record that nobody has claimed, and for one that is claimed and
\* has not been run.
FreshInv ==
    /\ \A p \in Records : triggered[p] = 0 => pending[p] = "none"
    /\ \A p \in Records : pending[p] \in {"none", "awaiting_approval"} =>
                             executions[p] = 0 /\ orders[p] = "none"
    /\ \A t \in Approvers : ap[t].pc = "execute" =>
                             executions[ap[t].record] = 0 /\ orders[ap[t].record] = "none"

\* What a result says of the order in the table.
Tells(result, order) ==
    /\ result \in _PENDING_DEFINITE_SUCCESS \cup _PENDING_DEFINITE_REJECTED => order = result
    /\ result = "permanent" => order = "none"

\* A handler that is about to settle holds a result that is true of the order.
ResultInv == \A t \in Approvers : ap[t].pc = "settle" => Tells(ap[t].result, orders[ap[t].record])

\* An evaluator's clock was read before; the cooldown covers every trigger so far.
ClockInv ==
    /\ \A e \in Evaluators : ev[e].busy => ev[e].now \in 1 .. MaxTime
    /\ \A p \in Records : triggered[p] # 0 /\ Cooldown[p[1]] > 0 =>
          cooldown_until[p[1]] >= triggered[p] + Cooldown[p[1]]

PInv == /\ TypeOK /\ ClaimInv /\ FreshInv /\ ResultInv /\ ClockInv
        /\ ExecutedOnce /\ PendingAgrees /\ ExecutingOwned /\ CooldownKept

-----------------------------------------------------------------------------
(* Types *)

ApproverRecords == [pc : {"idle", "claim", "execute", "placing", "settle"},
                    record : Records, result : Results]
EvaluatorRecords == [busy : BOOLEAN, record : Records, now : 0 .. MaxTime]

\* There is a record, so that the idle tasks are well-typed.
LEMMA IdleTyped ==
    /\ AnyRecord \in Records
    /\ IdleEvaluator \in EvaluatorRecords
    /\ IdleApprover \in ApproverRecords
  <1>1. AnyRecord \in Records
    <2>1. PICK a \in Alerts, w \in Windows : TRUE
      BY AlertAssumption
    <2>2. <<a, w>> \in Records
      BY <2>1 DEF Records
    <2> QED BY <2>2 DEF AnyRecord
  <1>2. 0 \in 0 .. MaxTime
    BY TimeAssumption
  <1>3. "UNKNOWN" \in Results
    BY DEF Results, OrderStatuses, OpenOrder
  <1> QED BY <1>1, <1>2, <1>3 DEF IdleEvaluator, IdleApprover, EvaluatorRecords, ApproverRecords

\* A result settles a record with one of three statuses.
LEMMA SettledTyped ==
    ASSUME NEW result
    PROVE  Settled(result) \in {"executed", "rejected", "reconcile_required"}
  BY DEF Settled

\* A settled record has a status again.
LEMMA SettleTyped ==
    ASSUME pending \in [Records -> PendingStatuses], NEW p \in Records, NEW result,
           Settle(p, result)
    PROVE  pending' \in [Records -> PendingStatuses]
  BY SettledTyped DEF Settle, PendingStatuses

\* Changing a field of a request keeps its type.
LEMMA ApproverTyped ==
    ASSUME ap \in [Approvers -> ApproverRecords], NEW t \in Approvers,
           NEW l \in {"idle", "claim", "execute", "placing", "settle"}, NEW result \in Results
    PROVE  /\ [ap EXCEPT ![t].pc = l] \in [Approvers -> ApproverRecords]
           /\ [ap EXCEPT ![t].pc = l, ![t].result = result] \in [Approvers -> ApproverRecords]
           /\ [ap EXCEPT ![t] = IdleApprover] \in [Approvers -> ApproverRecords]
           /\ \A p \in Records :
                [ap EXCEPT ![t] = [IdleApprover EXCEPT !.pc = l, !.record = p]]
                   \in [Approvers -> ApproverRecords]
  <1>1. /\ [ap EXCEPT ![t].pc = l] \in [Approvers -> ApproverRecords]
        /\ [ap EXCEPT ![t].pc = l, ![t].result = result] \in [Approvers -> ApproverRecords]
    BY DEF ApproverRecords
  <1>2. \A p \in Records : [IdleApprover EXCEPT !.pc = l, !.record = p] \in ApproverRecords
    BY IdleTyped DEF ApproverRecords
  <1> QED BY <1>1, <1>2, IdleTyped

\* The parts of the state that are simply typed.
TableOK ==
    /\ clock \in 1 .. MaxTime
    /\ alerts \subseteq Alerts
    /\ cooldown_until \in [Alerts -> Nat]
    /\ triggered \in [Records -> 0 .. MaxTime]
    /\ pending \in [Records -> PendingStatuses]
    /\ started \in [Records -> 0 .. MaxTime]
    /\ orders \in [Records -> OrderStatuses \cup {"none"}]
    /\ executions \in [Records -> Nat]
    /\ phase \in {"starting", "serving"}
    /\ todo \subseteq Records
    /\ crashes \in 0 .. MaxCrashes

TaskOK ==
    /\ ev \in [Evaluators -> EvaluatorRecords]
    /\ ap \in [Approvers -> ApproverRecords]

\* The type invariant in its two parts.
LEMMA TypeParts == TypeOK <=> TableOK /\ TaskOK
  BY DEF TypeOK, TableOK, TaskOK, ApproverRecords, EvaluatorRecords

\* The record an evaluator or a request is about.
LEMMA TaskRecords ==
    ASSUME TypeOK
    PROVE  /\ \A t \in Approvers : ap[t].record \in Records /\ ap[t].result \in Results
           /\ \A e \in Evaluators : ev[e].record \in Records /\ ev[e].now \in 0 .. MaxTime
           /\ \A p \in Records : p[1] \in Alerts
  BY DEF TypeOK, Records

\* The three ways out of execute_on_accounts: no row, a row before the broker, a paper row.
LEMMA ExecuteEffect ==
    ASSUME NEW t \in Approvers, ExecuteOnAccounts(t)
    PROVE  \/ /\ orders' = orders
              /\ \E result \in {"transient", "permanent", "UNKNOWN"} :
                    ap' = [ap EXCEPT ![t].pc = "settle", ![t].result = result]
           \/ /\ orders' = [orders EXCEPT ![ap[t].record] = "NEW"]
              /\ ap' = [ap EXCEPT ![t].pc = "placing"]
           \/ /\ orders' = [orders EXCEPT ![ap[t].record] = "paper"]
              /\ ap' = [ap EXCEPT ![t].pc = "settle", ![t].result = "paper"]
  BY Zenon DEF ExecuteOnAccounts

\* Every step keeps the types of the tables.
LEMMA TableStep ==
    ASSUME TypeOK, [Next]_vars
    PROVE  TableOK'
  <1> USE TypeParts, TaskRecords, TimeAssumption DEF TableOK
  <1>1. ASSUME NEW e \in Evaluators, MaybeTrigger(e) PROVE TableOK'
    <2>1. ev[e].record[1] \in Alerts /\ ev[e].now + Cooldown[ev[e].record[1]] \in Nat
      BY <1>1
    <2> QED BY <1>1, <2>1 DEF MaybeTrigger, PendingStatuses, startVars
  <1>2. ASSUME NEW e \in Evaluators, NEW p \in Records, EvaluateAlert(e, p) PROVE TableOK'
    BY <1>2 DEF EvaluateAlert, alertVars, pendingVars, startVars
  <1>3. ASSUME NEW a \in Alerts, DeleteAlert(a) PROVE TableOK'
    BY <1>3 DEF DeleteAlert, pendingVars, startVars
  <1>4. ASSUME NEW t \in Approvers, NEW p \in Records, ApprovePendingOrder(t, p) PROVE TableOK'
    BY <1>4 DEF ApprovePendingOrder, alertVars, pendingVars, startVars
  <1>5. ASSUME NEW t \in Approvers, ClaimExecution(t) PROVE TableOK'
    BY <1>5 DEF ClaimExecution, alertVars, pendingVars, startVars, PendingStatuses
  <1>6. ASSUME NEW t \in Approvers, ExecuteOnAccounts(t) PROVE TableOK'
    BY <1>6 DEF ExecuteOnAccounts, alertVars, pendingVars, startVars, OrderStatuses, OpenOrder,
                _PENDING_DEFINITE_SUCCESS
  <1>7. ASSUME NEW t \in Approvers, OrderPlaced(t) PROVE TableOK'
    BY <1>7 DEF OrderPlaced, alertVars, pendingVars, startVars
  <1>8. ASSUME NEW t \in Approvers, SettleExecution(t) PROVE TableOK'
    BY <1>8, SettleTyped DEF SettleExecution, alertVars, startVars
  <1>9. ASSUME NEW p \in Records, RejectPendingOrder(p) PROVE TableOK'
    BY <1>9 DEF RejectPendingOrder, alertVars, startVars, PendingStatuses
  <1>10. ASSUME NEW p \in Records, SyncOrder(p) PROVE TableOK'
    BY <1>10 DEF SyncOrder, alertVars, pendingVars, startVars
  <1>11. ASSUME NEW p \in Records, ReconcilePending(p) PROVE TableOK'
    <2>1. pending' \in [Records -> PendingStatuses]
      BY <1>11, SettleTyped DEF ReconcilePending
    <2> QED BY <1>11, <2>1 DEF ReconcilePending, alertVars
  <1>12. CASE Restart
    BY <1>12 DEF Restart, alertVars, pendingVars
  <1>13. CASE Serve
    BY <1>13 DEF Serve, alertVars, pendingVars
  <1>14. CASE Tick
    BY <1>14 DEF Tick, alertVars, pendingVars, startVars
  <1>15. CASE UNCHANGED vars
    BY <1>15 DEF vars, alertVars, pendingVars, startVars
  <1> QED BY <1>1, <1>2, <1>3, <1>4, <1>5, <1>6, <1>7, <1>8, <1>9, <1>10, <1>11, <1>12, <1>13,
             <1>14, <1>15 DEF Next, ApproverStep

\* Every step keeps the types of the tasks.
LEMMA TaskStep ==
    ASSUME TypeOK, [Next]_vars
    PROVE  TaskOK'
  <1> USE TypeParts, TaskRecords, IdleTyped DEF TaskOK
  <1>1. ASSUME NEW e \in Evaluators, MaybeTrigger(e) PROVE TaskOK'
    BY <1>1 DEF MaybeTrigger
  <1>2. ASSUME NEW e \in Evaluators, NEW p \in Records, EvaluateAlert(e, p) PROVE TaskOK'
    <2>1. clock \in 0 .. MaxTime
      BY TimeAssumption DEF TableOK
    <2>2. [busy |-> TRUE, record |-> p, now |-> clock] \in EvaluatorRecords
      BY <2>1, <1>2 DEF EvaluatorRecords
    <2> QED BY <1>2, <2>2 DEF EvaluateAlert
  <1>3. ASSUME NEW t \in Approvers, NEW p \in Records, ApprovePendingOrder(t, p) PROVE TaskOK'
    BY <1>3, ApproverTyped DEF ApprovePendingOrder
  <1>4. ASSUME NEW t \in Approvers, ClaimExecution(t) PROVE TaskOK'
    <2>1. [ap EXCEPT ![t].pc = "execute"] \in [Approvers -> ApproverRecords]
      BY <1>4 DEF ApproverRecords
    <2> QED BY <1>4, <2>1 DEF ClaimExecution
  <1>5. ASSUME NEW t \in Approvers, ExecuteOnAccounts(t) PROVE TaskOK'
    <2>1. {"transient", "permanent", "UNKNOWN", "paper"} \subseteq Results
      BY DEF Results, OrderStatuses, OpenOrder, _PENDING_DEFINITE_SUCCESS
    <2>2. [ap EXCEPT ![t].pc = "placing"] \in [Approvers -> ApproverRecords]
      BY <1>5 DEF ApproverRecords
    <2>3. \A result \in Results :
            [ap EXCEPT ![t].pc = "settle", ![t].result = result] \in [Approvers -> ApproverRecords]
      BY <1>5, ApproverTyped
    <2>4. ap' \in [Approvers -> ApproverRecords]
      <3>1. CASE \E result \in {"transient", "permanent", "UNKNOWN"} :
                    ap' = [ap EXCEPT ![t].pc = "settle", ![t].result = result]
        BY ONLY <2>1, <2>3, <3>1
      <3>2. CASE ap' = [ap EXCEPT ![t].pc = "placing"]
        BY <2>2, <3>2
      <3>3. CASE ap' = [ap EXCEPT ![t].pc = "settle", ![t].result = "paper"]
        BY ONLY <2>1, <2>3, <3>3
      <3> QED BY <1>5, <3>1, <3>2, <3>3, ExecuteEffect
    <2> QED BY <1>5, <2>4 DEF ExecuteOnAccounts
  <1>6. ASSUME NEW t \in Approvers, OrderPlaced(t) PROVE TaskOK'
    <2>1. OrderStatuses \subseteq Results
      BY DEF Results
    <2>2. \A result \in Results :
            [ap EXCEPT ![t].pc = "settle", ![t].result = result] \in [Approvers -> ApproverRecords]
      BY <1>6, ApproverTyped
    <2>3. ap' \in [Approvers -> ApproverRecords]
      BY ONLY <1>6, <2>1, <2>2 DEF OrderPlaced
    <2> QED BY <1>6, <2>3 DEF OrderPlaced
  <1>7. ASSUME NEW t \in Approvers, SettleExecution(t) PROVE TaskOK'
    BY <1>7, ApproverTyped DEF SettleExecution
  <1>8. CASE Restart
    BY <1>8 DEF Restart
  <1>9. CASE UNCHANGED <<ev, ap>>
    BY <1>9
  <1> QED BY <1>1, <1>2, <1>3, <1>4, <1>5, <1>6, <1>7, <1>8, <1>9
          DEF Next, ApproverStep, vars, DeleteAlert, RejectPendingOrder, SyncOrder, ReconcilePending,
              Serve, Tick

\* Every step keeps the type invariant.
LEMMA TypeStep ==
    ASSUME TypeOK, [Next]_vars
    PROVE  TypeOK'
  <1>1. TableOK' /\ TaskOK'
    BY TableStep, TaskStep
  <1> QED BY <1>1 DEF TypeOK, TableOK, TaskOK, ApproverRecords, EvaluatorRecords

-----------------------------------------------------------------------------
(* The claim *)

\* What execute_on_accounts does to the request that runs it, and what its result tells.
LEMMA ExecuteTask ==
    ASSUME TypeOK, FreshInv, NEW t \in Approvers, ExecuteOnAccounts(t)
    PROVE  /\ ap[t].pc = "execute"
           /\ \A u \in Approvers : u # t => ap'[u] = ap[u]
           /\ ap'[t].record = ap[t].record
           /\ ap'[t].pc \in {"placing", "settle"}
           /\ ap'[t].pc = "placing" => orders'[ap[t].record] = "NEW"
           /\ ap'[t].pc = "settle" => Tells(ap'[t].result, orders'[ap[t].record])
  <1> USE TaskRecords DEF TypeOK
  <1>0. ap[t].pc = "execute" /\ orders[ap[t].record] = "none"
    BY DEF ExecuteOnAccounts
  <1>1. ASSUME orders' = orders, NEW result \in {"transient", "permanent", "UNKNOWN"},
               ap' = [ap EXCEPT ![t].pc = "settle", ![t].result = result]
        PROVE  /\ \A u \in Approvers : u # t => ap'[u] = ap[u]
               /\ ap'[t].record = ap[t].record
               /\ ap'[t].pc = "settle" /\ Tells(ap'[t].result, orders'[ap[t].record])
    BY <1>0, <1>1 DEF Tells, _PENDING_DEFINITE_SUCCESS, _PENDING_DEFINITE_REJECTED
  <1>2. CASE /\ orders' = [orders EXCEPT ![ap[t].record] = "NEW"]
             /\ ap' = [ap EXCEPT ![t].pc = "placing"]
    BY <1>0, <1>2
  <1>3. CASE /\ orders' = [orders EXCEPT ![ap[t].record] = "paper"]
             /\ ap' = [ap EXCEPT ![t].pc = "settle", ![t].result = "paper"]
    BY <1>0, <1>3 DEF Tells
  <1> QED BY <1>0, <1>1, <1>2, <1>3, ExecuteEffect

\* A record is settled only from `executing`, every other record stays.
LEMMA SettleEffect ==
    ASSUME TypeOK, NEW p \in Records, NEW result, Settle(p, result)
    PROVE  /\ \A q \in Records : q # p \/ pending[q] # "executing" => pending'[q] = pending[q]
           /\ pending[p] = "executing" => pending'[p] = Settled(result)
  BY DEF TypeOK, Settle

\* The compare-and-set of the claim and of the settlement keep one owner per record.
LEMMA ClaimInvStep ==
    ASSUME TypeOK, ClaimInv, FreshInv, [Next]_vars
    PROVE  ClaimInv'
  <1> USE TaskRecords DEF TypeOK, ClaimInv, WorkPCs
  <1>1. ASSUME NEW e \in Evaluators, MaybeTrigger(e) PROVE ClaimInv'
    BY <1>1 DEF MaybeTrigger, startVars, FreshInv
  <1>2. ASSUME NEW t \in Approvers, NEW p \in Records, ApprovePendingOrder(t, p) PROVE ClaimInv'
    BY <1>2 DEF ApprovePendingOrder, pendingVars, startVars, IdleApprover
  <1>3. ASSUME NEW t \in Approvers, ClaimExecution(t) PROVE ClaimInv'
    <2>0. ap[t].pc = "claim" /\ UNCHANGED phase
      BY <1>3 DEF ClaimExecution, startVars
    <2>1. CASE pending[ap[t].record] = "awaiting_approval"
      <3>1. /\ \A u \in Approvers : u # t => ap'[u] = ap[u]
            /\ ap'[t].record = ap[t].record
            /\ pending' = [pending EXCEPT ![ap[t].record] = "executing"]
        BY <1>3, <2>1 DEF ClaimExecution
      <3>2. \A u \in Approvers : u # t /\ ap[u].pc \in WorkPCs =>
                ap[u].record # ap[t].record /\ pending'[ap[u].record] = "executing"
        BY <2>1, <3>1
      <3>3. pending'[ap[t].record] = "executing"
        BY <3>1
      <3> QED BY <2>0, <3>1, <3>2, <3>3
    <2>2. CASE pending[ap[t].record] # "awaiting_approval"
      <3>1. /\ \A u \in Approvers : u # t => ap'[u] = ap[u]
            /\ ap'[t].pc = "idle"
            /\ UNCHANGED pending
        BY <1>3, <2>2 DEF ClaimExecution, pendingVars, IdleApprover
      <3>2. \A u \in Approvers : ap'[u].pc \in WorkPCs => u # t /\ ap'[u] = ap[u]
        BY <3>1
      <3> QED BY <2>0, <3>1, <3>2
    <2> QED BY <2>1, <2>2
  <1>4. ASSUME NEW t \in Approvers, ExecuteOnAccounts(t) PROVE ClaimInv'
    <2>1. /\ ap[t].pc = "execute"
          /\ UNCHANGED <<pending, phase>>
      BY <1>4 DEF ExecuteOnAccounts, pendingVars, startVars
    <2> QED BY <1>4, <2>1, ExecuteTask
  <1>5. ASSUME NEW t \in Approvers, OrderPlaced(t) PROVE ClaimInv'
    BY <1>5 DEF OrderPlaced, pendingVars, startVars
  <1>6. ASSUME NEW t \in Approvers, SettleExecution(t) PROVE ClaimInv'
    <2>1. \A q \in Records : q # ap[t].record => pending'[q] = pending[q]
      BY <1>6, SettleEffect DEF SettleExecution
    <2> QED BY <1>6, <2>1 DEF SettleExecution, startVars, IdleApprover
  <1>7. ASSUME NEW p \in Records, RejectPendingOrder(p) PROVE ClaimInv'
    BY <1>7 DEF RejectPendingOrder, startVars
  <1>8. ASSUME NEW p \in Records, ReconcilePending(p) PROVE ClaimInv'
    BY <1>8 DEF ReconcilePending
  <1>9. CASE Restart
    BY <1>9 DEF Restart, IdleApprover
  <1>10. CASE Serve
    BY <1>10 DEF Serve, pendingVars
  <1>11. CASE UNCHANGED <<ap, pending, phase>>
    BY <1>11
  <1> QED BY <1>1, <1>2, <1>3, <1>4, <1>5, <1>6, <1>7, <1>8, <1>9, <1>10, <1>11
          DEF Next, ApproverStep, vars, pendingVars, startVars, EvaluateAlert, DeleteAlert, SyncOrder, Tick

\* The transaction of _maybe_trigger makes at most one new record.
LEMMA TriggerEffect ==
    ASSUME TypeOK, ClockInv, NEW e \in Evaluators, MaybeTrigger(e)
    PROVE  \/ UNCHANGED <<triggered, pending, cooldown_until>>
           \/ \E p \in Records, now \in 1 .. MaxTime :
                 /\ triggered[p] = 0 /\ Armed(p[1], now)
                 /\ triggered' = [triggered EXCEPT ![p] = now]
                 /\ pending' = [pending EXCEPT ![p] = "awaiting_approval"]
                 /\ cooldown_until' = [cooldown_until EXCEPT
                                         ![p[1]] = IF Cooldown[p[1]] > 0 THEN now + Cooldown[p[1]] ELSE 0]
  BY TaskRecords DEF MaybeTrigger, ClockInv

\* execute_on_accounts has not run for a record that is not claimed.
LEMMA FreshInvStep ==
    ASSUME TypeOK, ClaimInv, FreshInv, ClockInv, [Next]_vars
    PROVE  FreshInv'
  <1> USE TaskRecords DEF TypeOK, FreshInv
  <1>1. ASSUME NEW e \in Evaluators, MaybeTrigger(e) PROVE FreshInv'
    <2>1. UNCHANGED <<executions, orders, ap>>
      BY <1>1 DEF MaybeTrigger
    <2>2. CASE UNCHANGED <<triggered, pending, cooldown_until>>
      BY <2>1, <2>2
    <2>3. ASSUME NEW p \in Records, NEW now \in 1 .. MaxTime, triggered[p] = 0,
                 triggered' = [triggered EXCEPT ![p] = now],
                 pending' = [pending EXCEPT ![p] = "awaiting_approval"]
          PROVE  FreshInv'
      BY <2>1, <2>3
    <2> QED BY <1>1, <2>2, <2>3, TriggerEffect
  <1>2. ASSUME NEW t \in Approvers, NEW p \in Records, ApprovePendingOrder(t, p) PROVE FreshInv'
    BY <1>2 DEF ApprovePendingOrder, alertVars, pendingVars, IdleApprover
  <1>3. ASSUME NEW t \in Approvers, ClaimExecution(t) PROVE FreshInv'
    BY <1>3 DEF ClaimExecution, alertVars, pendingVars, IdleApprover
  <1>4. ASSUME NEW t \in Approvers, ExecuteOnAccounts(t) PROVE FreshInv'
    <2>1. /\ ap[t].pc = "execute" /\ pending[ap[t].record] = "executing"
          /\ UNCHANGED <<pending, triggered>>
          /\ executions' = [executions EXCEPT ![ap[t].record] = @ + 1]
      BY <1>4 DEF ExecuteOnAccounts, pendingVars, alertVars, ClaimInv, WorkPCs
    <2>2. \A p \in Records : p # ap[t].record => executions'[p] = executions[p] /\ orders'[p] = orders[p]
      BY <1>4, <2>1, ExecuteEffect
    <2>3. \A u \in Approvers : ap'[u].pc = "execute" =>
              u # t /\ ap[u].pc = "execute" /\ ap'[u].record = ap[u].record
      BY <1>4, <2>1, ExecuteTask
    <2>4. \A u \in Approvers : u # t /\ ap[u].pc = "execute" => ap[u].record # ap[t].record
      BY <1>4, <2>1 DEF ClaimInv, WorkPCs
    <2> QED BY <2>1, <2>2, <2>3, <2>4
  <1>5. ASSUME NEW t \in Approvers, OrderPlaced(t) PROVE FreshInv'
    <2>1. /\ ap[t].pc = "placing" /\ pending[ap[t].record] = "executing"
          /\ UNCHANGED <<pending, triggered, executions>>
      BY <1>5 DEF OrderPlaced, pendingVars, alertVars, ClaimInv, WorkPCs
    <2>2. \A u \in Approvers : u # t /\ ap[u].pc = "execute" => ap[u].record # ap[t].record
      BY <1>5, <2>1 DEF ClaimInv, WorkPCs
    <2> QED BY <1>5, <2>1, <2>2 DEF OrderPlaced
  <1>6. ASSUME NEW t \in Approvers, SettleExecution(t) PROVE FreshInv'
    <2>1. pending[ap[t].record] = "executing"
      BY <1>6 DEF SettleExecution, ClaimInv, WorkPCs
    <2>2. /\ \A q \in Records : q # ap[t].record => pending'[q] = pending[q]
          /\ pending'[ap[t].record] \in {"executed", "rejected", "reconcile_required"}
      BY <1>6, <2>1, SettleEffect, SettledTyped DEF SettleExecution
    <2> QED BY <1>6, <2>1, <2>2 DEF SettleExecution, alertVars, IdleApprover
  <1>7. ASSUME NEW p \in Records, RejectPendingOrder(p) PROVE FreshInv'
    BY <1>7 DEF RejectPendingOrder, alertVars
  <1>8. ASSUME NEW p \in Records, SyncOrder(p) PROVE FreshInv'
    BY <1>8 DEF SyncOrder, alertVars, pendingVars, OpenOrder
  <1>9. ASSUME NEW p \in Records, ReconcilePending(p) PROVE FreshInv'
    <2>1. \A q \in Records : \/ pending'[q] = pending[q]
                             \/ pending[q] = "executing" /\ pending'[q] \in {"executed", "rejected", "reconcile_required"}
      BY <1>9, SettleEffect, SettledTyped DEF ReconcilePending
    <2> QED BY <1>9, <2>1 DEF ReconcilePending, alertVars
  <1>10. CASE Restart
    BY <1>10 DEF Restart, alertVars, pendingVars, IdleApprover, OpenOrder
  <1>11. CASE UNCHANGED <<triggered, pending, orders, executions, ap>>
    BY <1>11
  <1> QED BY <1>1, <1>2, <1>3, <1>4, <1>5, <1>6, <1>7, <1>8, <1>9, <1>10, <1>11
          DEF Next, ApproverStep, vars, alertVars, pendingVars, EvaluateAlert, DeleteAlert, Serve, Tick

-----------------------------------------------------------------------------
(* The results *)

\* A row in a final status is not written again, and a row is inserted only by the
\* request that holds the claim.
LEMMA FinalOrders ==
    ASSUME TypeOK, ClaimInv, FreshInv, [Next]_vars, NEW p \in Records
    PROVE  /\ orders[p] \in _PENDING_DEFINITE_SUCCESS \cup _PENDING_DEFINITE_REJECTED =>
                 \/ orders'[p] = orders[p]
                 \/ \E t \in Approvers : ap[t].pc = "placing" /\ ap[t].record = p
           /\ orders[p] = "none" =>
                 \/ orders'[p] = "none"
                 \/ \E t \in Approvers : ap[t].pc \in {"execute", "placing"} /\ ap[t].record = p
  <1> USE TaskRecords DEF TypeOK
  <1>1. ASSUME NEW t \in Approvers, ExecuteOnAccounts(t)
        PROVE  orders'[p] = orders[p] \/ (ap[t].pc = "execute" /\ ap[t].record = p /\ orders[p] = "none")
    <2>1. ap[t].pc = "execute" /\ orders[ap[t].record] = "none"
      BY <1>1 DEF ExecuteOnAccounts
    <2> QED BY <1>1, <2>1, ExecuteEffect
  <1>2. ASSUME NEW t \in Approvers, OrderPlaced(t)
        PROVE  orders'[p] = orders[p] \/ (ap[t].pc = "placing" /\ ap[t].record = p)
    BY <1>2 DEF OrderPlaced
  <1>3. ASSUME NEW q \in Records, SyncOrder(q)
        PROVE  orders'[p] = orders[p] \/ orders[p] \in OpenOrder
    BY <1>3 DEF SyncOrder
  <1>4. CASE Restart
    BY <1>4 DEF Restart, OpenOrder, _PENDING_DEFINITE_SUCCESS, _PENDING_DEFINITE_REJECTED
  <1>5. CASE UNCHANGED orders
    BY <1>5
  <1>6. /\ OpenOrder \cap (_PENDING_DEFINITE_SUCCESS \cup _PENDING_DEFINITE_REJECTED) = {}
        /\ "none" \notin OpenOrder \cup _PENDING_DEFINITE_SUCCESS \cup _PENDING_DEFINITE_REJECTED
    BY DEF OpenOrder, _PENDING_DEFINITE_SUCCESS, _PENDING_DEFINITE_REJECTED
  <1>7. \/ UNCHANGED orders \/ Restart
        \/ \E q \in Records : SyncOrder(q)
        \/ \E t \in Approvers : ExecuteOnAccounts(t) \/ OrderPlaced(t)
    BY DEF Next, ApproverStep, vars, EvaluateAlert, MaybeTrigger, DeleteAlert, ApprovePendingOrder,
           ClaimExecution, SettleExecution, RejectPendingOrder, ReconcilePending, Serve, Tick
  <1> QED BY <1>1, <1>2, <1>3, <1>4, <1>5, <1>6, <1>7

\* The result of a request stays true of its order until it is settled.
LEMMA ResultInvStep ==
    ASSUME TypeOK, ClaimInv, FreshInv, ResultInv, [Next]_vars
    PROVE  ResultInv'
  <1> SUFFICES ASSUME NEW t \in Approvers, ap'[t].pc = "settle"
               PROVE  Tells(ap'[t].result, orders'[ap'[t].record])
    BY DEF ResultInv, Tells
  <1> USE TaskRecords DEF TypeOK
  <1>1. CASE ExecuteOnAccounts(t)
    BY <1>1, ExecuteTask
  <1>2. CASE OrderPlaced(t)
    BY <1>2 DEF OrderPlaced, OrderStatuses, OpenOrder, Tells, _PENDING_DEFINITE_SUCCESS, _PENDING_DEFINITE_REJECTED
  <1>3. CASE ap'[t] = ap[t]
    <2>1. Tells(ap[t].result, orders[ap[t].record])
      BY <1>3 DEF ResultInv
    <2>2. \A u \in Approvers : ap[u].pc \in {"execute", "placing"} => ap[u].record # ap[t].record
      BY <1>3 DEF ClaimInv, WorkPCs
    <2>3. ap[t].record \in Records
      BY <1>3
    <2>4. orders[ap[t].record] \in _PENDING_DEFINITE_SUCCESS \cup _PENDING_DEFINITE_REJECTED \cup {"none"} =>
             orders'[ap[t].record] = orders[ap[t].record]
      BY <2>2, <2>3, FinalOrders
    <2> QED BY <1>3, <2>1, <2>4 DEF Tells
  <1>4. ap'[t] = ap[t] \/ ExecuteOnAccounts(t) \/ OrderPlaced(t)
    <2>1. ASSUME NEW u \in Approvers, ExecuteOnAccounts(u) PROVE u = t \/ ap'[t] = ap[t]
      BY <2>1, ExecuteTask
    <2>2. ASSUME NEW u \in Approvers, OrderPlaced(u) PROVE u = t \/ ap'[t] = ap[t]
      BY <2>2 DEF OrderPlaced
    <2>3. ASSUME NEW u \in Approvers,
                 ClaimExecution(u) \/ SettleExecution(u) \/ \E p \in Records : ApprovePendingOrder(u, p)
          PROVE  ap'[t] = ap[t]
      <3>1. CASE ClaimExecution(u)
        BY <2>3, <3>1 DEF ClaimExecution, IdleApprover
      <3>2. CASE SettleExecution(u)
        BY <2>3, <3>2 DEF SettleExecution, IdleApprover
      <3>3. ASSUME NEW p \in Records, ApprovePendingOrder(u, p) PROVE ap'[t] = ap[t]
        BY <2>3, <3>3 DEF ApprovePendingOrder, IdleApprover
      <3> QED BY <2>3, <3>1, <3>2, <3>3
    <2>4. ~Restart
      BY DEF Restart, IdleApprover
    <2> QED BY <2>1, <2>2, <2>3, <2>4
            DEF Next, ApproverStep, vars, EvaluateAlert, MaybeTrigger, DeleteAlert, SyncOrder,
                RejectPendingOrder, ReconcilePending, Serve, Tick
  <1> QED BY <1>1, <1>2, <1>3, <1>4

\* What a settlement writes agrees with the order, when its result does.
LEMMA SettledAgrees ==
    ASSUME NEW result \in Results, NEW order, Tells(result, order)
    PROVE  /\ Settled(result) = "executed" => order \in _PENDING_DEFINITE_SUCCESS
           /\ Settled(result) = "rejected" => order \in _PENDING_DEFINITE_REJECTED \cup {"none"}
  BY DEF Settled, Tells

\* How the status of a record moves: triggered, claimed, rejected by the user, or settled
\* with what its order says.
LEMMA PendingMoves ==
    ASSUME TypeOK, ClaimInv, FreshInv, ResultInv, ClockInv, [Next]_vars, NEW p \in Records
    PROVE  \/ pending'[p] = pending[p]
           \/ pending[p] = "none" /\ pending'[p] = "awaiting_approval"
           \/ pending[p] = "awaiting_approval" /\ pending'[p] \in {"executing", "rejected"} /\ UNCHANGED orders
           \/ /\ pending[p] = "executing" /\ UNCHANGED orders
              /\ pending'[p] \in {"executed", "rejected", "reconcile_required"}
              /\ pending'[p] = "executed" => orders[p] \in _PENDING_DEFINITE_SUCCESS
              /\ pending'[p] = "rejected" => orders[p] \in _PENDING_DEFINITE_REJECTED \cup {"none"}
  <1> DEFINE Moves ==
           \/ pending'[p] = pending[p]
           \/ pending[p] = "none" /\ pending'[p] = "awaiting_approval"
           \/ pending[p] = "awaiting_approval" /\ pending'[p] \in {"executing", "rejected"} /\ UNCHANGED orders
           \/ /\ pending[p] = "executing" /\ UNCHANGED orders
              /\ pending'[p] \in {"executed", "rejected", "reconcile_required"}
              /\ pending'[p] = "executed" => orders[p] \in _PENDING_DEFINITE_SUCCESS
              /\ pending'[p] = "rejected" => orders[p] \in _PENDING_DEFINITE_REJECTED \cup {"none"}
  <1> USE TaskRecords DEF TypeOK
  <1>1. ASSUME NEW e \in Evaluators, MaybeTrigger(e) PROVE Moves
    <2>1. pending'[p] = pending[p] \/ (triggered[p] = 0 /\ pending'[p] = "awaiting_approval")
      BY <1>1, TriggerEffect
    <2> QED BY <2>1 DEF FreshInv
  <1>2. ASSUME NEW t \in Approvers, ClaimExecution(t) PROVE Moves
    BY <1>2 DEF ClaimExecution, pendingVars
  <1>3. ASSUME NEW q \in Records, RejectPendingOrder(q) PROVE Moves
    BY <1>3 DEF RejectPendingOrder
  <1>4. ASSUME NEW t \in Approvers, SettleExecution(t) PROVE Moves
    <2>1. /\ ap[t].pc = "settle" /\ Settle(ap[t].record, ap[t].result) /\ UNCHANGED orders
      BY <1>4 DEF SettleExecution
    <2>2. Tells(ap[t].result, orders[ap[t].record])
      BY <1>4, <2>1 DEF ResultInv
    <2>3. CASE p = ap[t].record /\ pending[p] = "executing"
      <3>1. pending'[p] = Settled(ap[t].result)
        BY <1>4, <2>1, <2>3, SettleEffect
      <3>2. /\ Settled(ap[t].result) = "executed" => orders[p] \in _PENDING_DEFINITE_SUCCESS
            /\ Settled(ap[t].result) = "rejected" => orders[p] \in _PENDING_DEFINITE_REJECTED \cup {"none"}
        BY <1>4, <2>2, <2>3, SettledAgrees
      <3> QED BY <2>1, <2>3, <3>1, <3>2, SettledTyped
    <2>4. CASE p # ap[t].record \/ pending[p] # "executing"
      BY <1>4, <2>1, <2>4, SettleEffect
    <2> QED BY <2>3, <2>4
  <1>5. ASSUME NEW q \in Records, ReconcilePending(q) PROVE Moves
    <2>1. CASE UNCHANGED pending
      BY <2>1
    <2>2. CASE orders[q] # "none" /\ Settle(q, orders[q])
      <3>1. orders[q] \in Results /\ Tells(orders[q], orders[q])
        BY <1>5, <2>2 DEF Results, Tells, OrderStatuses, OpenOrder, _PENDING_DEFINITE_SUCCESS,
                          _PENDING_DEFINITE_REJECTED
      <3> QED BY <1>5, <2>2, <3>1, SettleEffect, SettledTyped, SettledAgrees DEF ReconcilePending
    <2>3. CASE Settle(q, "UNKNOWN")
      <3>1. Settled("UNKNOWN") = "reconcile_required"
        BY DEF Settled, _PENDING_DEFINITE_SUCCESS, _PENDING_DEFINITE_REJECTED
      <3> QED BY <1>5, <2>3, <3>1, SettleEffect DEF ReconcilePending
    <2> QED BY <1>5, <2>1, <2>2, <2>3 DEF ReconcilePending
  <1>6. CASE UNCHANGED pending
    BY <1>6
  <1> QED BY <1>1, <1>2, <1>3, <1>4, <1>5, <1>6
          DEF Next, ApproverStep, vars, pendingVars, EvaluateAlert, DeleteAlert, ApprovePendingOrder,
              ExecuteOnAccounts, OrderPlaced, SyncOrder, Restart, Serve, Tick

\* A record never says more than its order.
LEMMA AgreesStep ==
    ASSUME TypeOK, ClaimInv, FreshInv, ResultInv, ClockInv, PendingAgrees, [Next]_vars
    PROVE  PendingAgrees'
  <1> SUFFICES ASSUME NEW p \in Records
               PROVE  /\ pending'[p] = "executed" => orders'[p] \in _PENDING_DEFINITE_SUCCESS
                      /\ pending'[p] = "rejected" => orders'[p] \in _PENDING_DEFINITE_REJECTED \cup {"none"}
    BY DEF PendingAgrees
  <1>1. CASE pending'[p] = pending[p] /\ pending[p] \in {"executed", "rejected"}
    <2>1. \A t \in Approvers : ap[t].pc \in {"execute", "placing"} => ap[t].record # p
      BY <1>1 DEF ClaimInv, WorkPCs
    <2>2. orders[p] \in _PENDING_DEFINITE_SUCCESS \cup _PENDING_DEFINITE_REJECTED \cup {"none"}
      BY <1>1 DEF PendingAgrees
    <2>3. orders'[p] = orders[p]
      BY <2>1, <2>2, FinalOrders
    <2> QED BY <1>1, <2>3 DEF PendingAgrees
  <1>2. CASE pending[p] = "awaiting_approval" /\ pending'[p] = "rejected" /\ UNCHANGED orders
    BY <1>2 DEF FreshInv
  <1>3. CASE /\ pending[p] = "executing" /\ UNCHANGED orders
             /\ pending'[p] = "executed" => orders[p] \in _PENDING_DEFINITE_SUCCESS
             /\ pending'[p] = "rejected" => orders[p] \in _PENDING_DEFINITE_REJECTED \cup {"none"}
    BY <1>3
  <1> QED BY <1>1, <1>2, <1>3, PendingMoves

\* A claim outlives its request only without an order, or until the restart settles it.
LEMMA OwnedStep ==
    ASSUME TypeOK, ClaimInv, FreshInv, ResultInv, ClockInv, ExecutingOwned, [Next]_vars
    PROVE  ExecutingOwned'
  <1> SUFFICES ASSUME NEW p \in Records, pending'[p] = "executing"
               PROVE  \/ \E t \in Approvers : ap'[t].record = p /\ ap'[t].pc \in WorkPCs
                      \/ orders'[p] = "none"
                      \/ p \in todo'
    BY DEF ExecutingOwned, Working, WorkPCs
  <1> DEFINE Owned == \/ \E t \in Approvers : ap'[t].record = p /\ ap'[t].pc \in WorkPCs
                      \/ orders'[p] = "none"
                      \/ p \in todo'
  <1> USE TaskRecords DEF TypeOK, WorkPCs
  <1>1. ASSUME NEW t \in Approvers, ClaimExecution(t) PROVE Owned
    <2>1. CASE pending[p] = "executing"
      <3>1. \A u \in Approvers : ap[u].pc \in WorkPCs => ap'[u] = ap[u]
        BY <1>1 DEF ClaimExecution
      <3> QED BY <1>1, <2>1, <3>1 DEF ExecutingOwned, Working, ClaimExecution, startVars
    <2>2. CASE pending[p] # "executing"
      <3>1. ap[t].record = p /\ pending[p] = "awaiting_approval" /\ UNCHANGED orders
        BY <1>1, <2>2 DEF ClaimExecution, pendingVars
      <3> QED BY <3>1 DEF FreshInv
    <2> QED BY <2>1, <2>2
  <1>2. pending[p] = "executing" \/ \E t \in Approvers : ClaimExecution(t)
    <2>1. pending[p] = "executing" \/ pending[p] = "awaiting_approval"
      BY PendingMoves
    <2>2. ASSUME pending[p] = "awaiting_approval" PROVE \E t \in Approvers : ClaimExecution(t)
      <3>1. ASSUME NEW e \in Evaluators, MaybeTrigger(e) PROVE FALSE
        BY <2>2, <3>1, TriggerEffect
      <3>2. ASSUME NEW t \in Approvers, SettleExecution(t) PROVE FALSE
        BY <2>2, <3>2, SettleEffect DEF SettleExecution
      <3>3. ASSUME NEW q \in Records, RejectPendingOrder(q) \/ ReconcilePending(q) PROVE FALSE
        BY <2>2, <3>3, SettleEffect DEF RejectPendingOrder, ReconcilePending
      <3>4. pending' # pending
        BY <2>2
      <3> QED BY <3>1, <3>2, <3>3, <3>4
              DEF Next, ApproverStep, vars, pendingVars, EvaluateAlert, DeleteAlert, ApprovePendingOrder,
                  ExecuteOnAccounts, OrderPlaced, SyncOrder, Restart, Serve, Tick
    <2> QED BY <2>1, <2>2
  <1>3. ASSUME pending[p] = "executing", UNCHANGED <<phase, todo>>,
               \A t \in Approvers : ap[t].record = p /\ ap[t].pc \in WorkPCs =>
                   ap'[t].record = p /\ ap'[t].pc \in WorkPCs,
               orders[p] = "none" => orders'[p] = "none" \/ \E t \in Approvers : ap[t].pc \in {"execute", "placing"} /\ ap[t].record = p
        PROVE  Owned
    BY <1>3 DEF ExecutingOwned, Working
  <1>4. orders[p] = "none" => orders'[p] = "none" \/ \E t \in Approvers : ap[t].pc \in {"execute", "placing"} /\ ap[t].record = p
    BY FinalOrders
  <1>5. ASSUME pending[p] = "executing", NEW t \in Approvers, ExecuteOnAccounts(t) PROVE Owned
    <2>1. UNCHANGED <<phase, todo>>
      BY <1>5 DEF ExecuteOnAccounts, startVars
    <2>2. \A u \in Approvers : ap[u].record = p /\ ap[u].pc \in WorkPCs =>
             ap'[u].record = p /\ ap'[u].pc \in WorkPCs
      BY <1>5, ExecuteTask
    <2> QED BY <1>3, <1>4, <1>5, <2>1, <2>2
  <1>6. ASSUME pending[p] = "executing", NEW t \in Approvers, OrderPlaced(t) PROVE Owned
    <2>1. UNCHANGED <<phase, todo>>
      BY <1>6 DEF OrderPlaced, startVars
    <2>2. \A u \in Approvers : ap[u].record = p /\ ap[u].pc \in WorkPCs =>
             ap'[u].record = p /\ ap'[u].pc \in WorkPCs
      BY <1>6 DEF OrderPlaced
    <2> QED BY <1>3, <1>4, <1>6, <2>1, <2>2
  <1>7. ASSUME pending[p] = "executing", NEW t \in Approvers, SettleExecution(t) PROVE Owned
    <2>1. UNCHANGED <<phase, todo>>
      BY <1>7 DEF SettleExecution, startVars
    <2>2. p # ap[t].record
      <3>1. Settle(ap[t].record, ap[t].result)
        BY <1>7 DEF SettleExecution
      <3>2. Settled(ap[t].result) # "executing"
        BY DEF Settled
      <3> QED BY ONLY <1>7, <3>1, <3>2, TaskRecords, TypeOK, pending'[p] = "executing" DEF Settle, TypeOK
    <2>3. \A u \in Approvers : u # t => ap'[u] = ap[u]
      BY <1>7 DEF SettleExecution
    <2>4. \A u \in Approvers : ap[u].record = p /\ ap[u].pc \in WorkPCs =>
             ap'[u].record = p /\ ap'[u].pc \in WorkPCs
      BY <2>2, <2>3
    <2> QED BY <1>3, <1>4, <1>7, <2>1, <2>4
  <1>8. ASSUME pending[p] = "executing", NEW t \in Approvers, NEW q \in Records, ApprovePendingOrder(t, q)
        PROVE  Owned
    <2>1. ap[t].pc = "idle" /\ UNCHANGED <<phase, todo>>
      BY <1>8 DEF ApprovePendingOrder, startVars
    <2>2. \A u \in Approvers : u # t => ap'[u] = ap[u]
      BY <1>8 DEF ApprovePendingOrder
    <2> QED BY <1>3, <1>4, <1>8, <2>1, <2>2
  <1>9. ASSUME pending[p] = "executing", NEW q \in Records, ReconcilePending(q) PROVE Owned
    <2>1. /\ phase = "starting" /\ UNCHANGED <<phase, ap, orders>> /\ todo' = todo \ {q}
      BY <1>9 DEF ReconcilePending
    <2>2. CASE q # p
      BY <1>9, <2>1, <2>2 DEF ExecutingOwned, Working
    <2>3. CASE q = p
      <3>1. \A result : ~Settle(p, result)
        BY <1>9, SettleEffect, SettledTyped
      <3> QED BY <1>9, <2>1, <2>3, <3>1 DEF ReconcilePending
    <2> QED BY <2>2, <2>3
  <1>10. CASE Restart
    BY <1>10 DEF Restart, pendingVars
  <1>11. ASSUME pending[p] = "executing", Serve PROVE Owned
    BY <1>11 DEF Serve, ExecutingOwned, Working
  <1>12. ASSUME pending[p] = "executing", UNCHANGED <<phase, todo, ap>> PROVE Owned
    BY <1>3, <1>4, <1>12
  <1> QED BY <1>1, <1>2, <1>5, <1>6, <1>7, <1>8, <1>9, <1>10, <1>11, <1>12
          DEF Next, ApproverStep, vars, startVars, EvaluateAlert, MaybeTrigger, DeleteAlert, SyncOrder,
              RejectPendingOrder, Tick

-----------------------------------------------------------------------------
(* Cooldown and executions *)

\* The cooldown is checked again in the transaction, with the clock read before it.
LEMMA ClockStep ==
    ASSUME TypeOK, ClockInv, CooldownKept, [Next]_vars
    PROVE  ClockInv' /\ CooldownKept'
  <1> USE TaskRecords, TimeAssumption DEF TypeOK
  <1>1. \A e \in Evaluators : ev'[e].busy => ev'[e].now \in 1 .. MaxTime
    <2>1. ASSUME NEW e \in Evaluators, NEW p \in Records, EvaluateAlert(e, p)
          PROVE  \A f \in Evaluators : ev'[f].busy => ev'[f].now \in 1 .. MaxTime
      BY <2>1 DEF EvaluateAlert, ClockInv
    <2>2. ASSUME NEW e \in Evaluators, MaybeTrigger(e)
          PROVE  \A f \in Evaluators : ev'[f].busy => ev'[f].now \in 1 .. MaxTime
      BY <2>2 DEF MaybeTrigger, ClockInv, IdleEvaluator
    <2>3. CASE Restart
      BY <2>3 DEF Restart, IdleEvaluator
    <2>4. CASE UNCHANGED ev
      BY <2>4 DEF ClockInv
    <2> QED BY <2>1, <2>2, <2>3, <2>4
            DEF Next, ApproverStep, vars, DeleteAlert, ApprovePendingOrder, ClaimExecution, ExecuteOnAccounts,
                OrderPlaced, SettleExecution, RejectPendingOrder, SyncOrder, ReconcilePending, Serve, Tick
  <1> DEFINE Covered == \A p \in Records : triggered'[p] # 0 /\ Cooldown[p[1]] > 0 =>
                            cooldown_until'[p[1]] >= triggered'[p] + Cooldown[p[1]]
  <1>2. ASSUME NEW e \in Evaluators, MaybeTrigger(e) PROVE Covered /\ CooldownKept'
    <2>1. CASE UNCHANGED <<triggered, pending, cooldown_until>>
      BY <2>1 DEF ClockInv, CooldownKept
    <2>2. ASSUME NEW p \in Records, NEW now \in 1 .. MaxTime, triggered[p] = 0, Armed(p[1], now),
                 triggered' = [triggered EXCEPT ![p] = now],
                 cooldown_until' = [cooldown_until EXCEPT
                                     ![p[1]] = IF Cooldown[p[1]] > 0 THEN now + Cooldown[p[1]] ELSE 0]
          PROVE  Covered /\ CooldownKept'
      <3>1. now >= cooldown_until[p[1]] /\ p[1] \in Alerts
        BY <2>2 DEF Armed
      <3>2. \A q \in Records : q[1] = p[1] /\ triggered[q] # 0 =>
               now >= triggered[q] + Cooldown[p[1]] \/ Cooldown[p[1]] = 0
        BY <3>1 DEF ClockInv
      <3>3. Covered
        <4> SUFFICES ASSUME NEW q \in Records, triggered'[q] # 0, Cooldown[q[1]] > 0
                     PROVE  cooldown_until'[q[1]] >= triggered'[q] + Cooldown[q[1]]
          OBVIOUS
        <4>1. CASE q[1] # p[1]
          BY <2>2, <4>1 DEF ClockInv
        <4>2. CASE q = p
          BY <2>2, <3>1, <4>2
        <4>3. CASE q # p /\ q[1] = p[1]
          <5>1. triggered'[q] = triggered[q] /\ cooldown_until'[q[1]] = now + Cooldown[q[1]]
            BY <2>2, <3>1, <4>3
          <5> QED BY <2>2, <3>2, <4>3, <5>1
        <4> QED BY <4>1, <4>2, <4>3
      <3>4. CooldownKept'
        <4> SUFFICES ASSUME NEW q \in Records, NEW r \in Records, q # r, q[1] = r[1],
                            triggered'[q] # 0, triggered'[r] # 0
                     PROVE  \/ triggered'[q] >= triggered'[r] + Cooldown[q[1]]
                            \/ triggered'[r] >= triggered'[q] + Cooldown[q[1]]
          BY DEF CooldownKept
        <4>1. CASE q # p /\ r # p
          BY <2>2, <4>1 DEF CooldownKept
        <4>2. CASE q = p
          <5>1. triggered'[q] = now /\ triggered'[r] = triggered[r]
            BY <2>2, <4>2
          <5> QED BY <2>2, <3>2, <4>2, <5>1
        <4>3. CASE r = p
          <5>1. triggered'[r] = now /\ triggered'[q] = triggered[q]
            BY <2>2, <4>3
          <5> QED BY <2>2, <3>2, <4>3, <5>1
        <4> QED BY <4>1, <4>2, <4>3
      <3> QED BY <3>3, <3>4
    <2> QED BY <1>2, <2>1, <2>2, TriggerEffect
  <1>3. ASSUME UNCHANGED <<triggered, cooldown_until>> PROVE Covered /\ CooldownKept'
    BY <1>3 DEF ClockInv, CooldownKept
  <1>4. UNCHANGED <<triggered, cooldown_until>> \/ \E e \in Evaluators : MaybeTrigger(e)
    BY DEF Next, ApproverStep, vars, alertVars, EvaluateAlert, DeleteAlert, ApprovePendingOrder, ClaimExecution,
           ExecuteOnAccounts, OrderPlaced, SettleExecution, RejectPendingOrder, SyncOrder,
           ReconcilePending, Restart, Serve, Tick
  <1> QED BY <1>1, <1>2, <1>3, <1>4 DEF ClockInv

\* Only a request that holds a fresh claim runs execute_on_accounts.
LEMMA ExecutedStep ==
    ASSUME TypeOK, FreshInv, ExecutedOnce, [Next]_vars
    PROVE  ExecutedOnce'
  <1>1. ASSUME NEW t \in Approvers, ExecuteOnAccounts(t) PROVE ExecutedOnce'
    BY <1>1, TaskRecords DEF TypeOK, FreshInv, ExecutedOnce, ExecuteOnAccounts
  <1>2. CASE UNCHANGED executions
    BY <1>2 DEF ExecutedOnce
  <1> QED BY <1>1, <1>2
          DEF Next, ApproverStep, vars, EvaluateAlert, MaybeTrigger, DeleteAlert, ApprovePendingOrder,
              ClaimExecution, OrderPlaced, SettleExecution, RejectPendingOrder, SyncOrder,
              ReconcilePending, Restart, Serve, Tick

-----------------------------------------------------------------------------
(* The theorems *)

\* The daemon starts with no trigger, no record and idle tasks.
LEMMA InitPInv ==
    ASSUME Init
    PROVE  PInv
  <1>1. TypeOK
    <2>1. /\ 1 \in 1 .. MaxTime /\ 0 \in 0 .. MaxTime /\ 0 \in 0 .. MaxCrashes
      BY TimeAssumption
    <2>2. ev \in [Evaluators -> EvaluatorRecords] /\ ap \in [Approvers -> ApproverRecords]
      BY IdleTyped DEF Init
    <2>3. TableOK
      BY <2>1 DEF Init, TableOK, PendingStatuses
    <2> QED BY <2>2, <2>3, TypeParts DEF TaskOK
  <1>2. ClaimInv /\ ResultInv
    BY DEF Init, ClaimInv, ResultInv, WorkPCs, IdleApprover
  <1>3. FreshInv /\ ExecutingOwned
    BY DEF Init, FreshInv, ExecutingOwned, IdleApprover
  <1>4. ClockInv /\ ExecutedOnce /\ PendingAgrees /\ CooldownKept
    BY DEF Init, ClockInv, ExecutedOnce, PendingAgrees, CooldownKept, IdleEvaluator
  <1> QED BY <1>1, <1>2, <1>3, <1>4 DEF PInv

\* The invariant of alerts and pending orders.
THEOREM PendingInvariant == Spec => []PInv
  <1>1. Init => PInv
    BY InitPInv
  <1>2. PInv /\ [Next]_vars => PInv'
    BY TypeStep, ClaimInvStep, FreshInvStep, ResultInvStep, OwnedStep, ClockStep, ExecutedStep, AgreesStep
       DEF PInv
  <1> QED BY <1>1, <1>2, PTL DEF Spec

\* approve_and_claim_pending_execution hands a record out once: execute_on_accounts never
\* runs twice for it, whatever approvals race and however often the daemon crashes.
THEOREM RecordExecutedOnce == Spec => []ExecutedOnce
  <1>1. PInv => ExecutedOnce
    BY DEF PInv
  <1> QED BY <1>1, PendingInvariant, PTL

\* complete_pending_execution, fail_pending_execution, reject_pending_order and the restart
\* write `executed` and `rejected` only where the order says so.
THEOREM RecordsTruthful == Spec => []PendingAgrees
  <1>1. PInv => PendingAgrees
    BY DEF PInv
  <1> QED BY <1>1, PendingInvariant, PTL

\* reconcile_pending_executions finds every claim whose request died after its insert.
THEOREM ClaimsOwned == Spec => []ExecutingOwned
  <1>1. PInv => ExecutingOwned
    BY DEF PInv
  <1> QED BY <1>1, PendingInvariant, PTL

\* Two triggers of an alert keep its cooldown apart, although _maybe_trigger decides with
\* a clock that was read before its transaction.
THEOREM TriggersApart == Spec => []CooldownKept
  <1>1. PInv => CooldownKept
    BY DEF PInv
  <1> QED BY <1>1, PendingInvariant, PTL

\* No late handler, user or restart changes a record that is executed or rejected.
THEOREM DecisionsFinal == Spec => DecisionsStay
  <1>1. PInv /\ [Next]_vars =>
          [\A p \in Records : pending[p] \in {"executed", "rejected"} => pending'[p] = pending[p]]_pending
    BY PendingMoves DEF PInv
  <1> QED BY <1>1, PendingInvariant, PTL DEF Spec, DecisionsStay
=============================================================================
