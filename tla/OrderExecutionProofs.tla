------------------------ MODULE OrderExecutionProofs ------------------------
(***************************************************************************)
(* Proofs about OrderExecution, for every set of accounts, keys and tasks: *)
(* each safety property its runs check, and that what becomes of one key   *)
(* implements IdempotentExecution.  The last part is about the daemons and *)
(* adapters (module AdapterLauncher): the locks of OrderExecution are      *)
(* those of one process, which is sound because one daemon serves.         *)
(***************************************************************************)
EXTENDS OrderExecution, SumTheorems, TLAPS

USE NonEmptyAssumption, OcoAssumption, TaskAssumption, NotionalAssumption, BoundAssumption

(* Facts about the status conversions and the handler's helpers. *)

\* A converted status is a broker status, and a final one is never that of an order
\* that can still trade (_order_result, query_oco, place_oco).
LEMMA QueryStatusType ==
    ASSUME NEW k \in Keys, NEW s \in ExchangeStatuses
    PROVE  /\ QueryStatus(k, s) \in ORDER_STATUSES
           /\ PlaceStatus(k, s) \in ORDER_STATUSES
           /\ QueryStatus(k, s) \in FinalStatuses => s \notin LiveStatuses
           /\ PlaceStatus(k, s) \in FinalStatuses => PlaceStatus(k, s) = QueryStatus(k, s)
BY DEF QueryStatus, PlaceStatus, ORDER_STATUSES, ExchangeStatuses, LiveStatuses,
       FinalStatuses, OpenStatuses

\* Every outcome of query_order and query_oco is typed and true when it is read.
LEMMA QueryOutcomesType ==
    ASSUME TypeOK, NEW a \in Accounts, NEW k \in Keys, NEW out \in QueryOutcomes(a, k)
    PROVE  /\ out \in Outcomes
           /\ Seen(a, k, out)
<1>1. book[a][k] \in ExchangeStatuses \cup {"absent"}
  BY DEF TypeOK
<1>2. CASE out = "error" \/ out = "none"
  BY <1>2 DEF Outcomes, Seen, FinalStatuses
<1>3. CASE book[a][k] # "absent" /\ out = QueryStatus(k, book[a][k])
  BY <1>1, <1>3, QueryStatusType DEF Outcomes, Seen
<1> QED
  BY <1>2, <1>3 DEF QueryOutcomes

\* A handler without a request is a handler state.
LEMMA IdleRequestType == IdleRequest \in Request
BY DEF IdleRequest, Request, PCs, Outcomes, Replies

\* The initial state has the declared types.
LEMMA InitTypeOK == Init => TypeOK
BY IdleRequestType DEF Init, TypeOK, RowStatuses, NoOrder, Outcomes

\* What the end of the `async with lock` block does to the handlers and the locks.
LEMMA FinishFacts ==
    ASSUME TypeOK, NEW t \in Tasks, Finish(t)
    PROVE  /\ locks' = [locks EXCEPT ![req[t].acct] = NoTask]
           /\ locks' \in [Accounts -> Tasks \cup {NoTask}]
           /\ req' \in [Tasks -> Request]
           /\ \A u \in Tasks \ {t} : req'[u] = req[u]
           /\ req'[t].pc \in {"idle", "wait"} /\ req'[t].reply = "none"
<1> DEFINE r == req[t]
           rest == r.todo \ {r.acct}
<1>1. r \in Request
  BY DEF TypeOK
<1>2. CASE rest = {}
  <2>1. req' = [req EXCEPT ![t] = IdleRequest]
    BY <1>2 DEF Finish
  <2> QED
    BY <2>1, IdleRequestType DEF TypeOK, Finish, IdleRequest
<1>3. CASE rest # {}
  <2>1. PICK a \in rest : req' = [req EXCEPT ![t] = [r EXCEPT !.pc = "wait", !.acct = a,
                                     !.todo = rest, !.found = "none", !.reply = "none"]]
    BY <1>3 DEF Finish
  <2>2. a \in Accounts /\ rest \in SUBSET Accounts
    BY <1>1 DEF Request
  <2>3. [r EXCEPT !.pc = "wait", !.acct = a, !.todo = rest,
                  !.found = "none", !.reply = "none"] \in Request
    BY <1>1, <2>2 DEF Request, PCs, Outcomes, Replies
  <2> QED
    BY <1>1, <2>1, <2>3 DEF TypeOK, Finish, Request
<1> QED
  BY <1>2, <1>3

-----------------------------------------------------------------------------
(* Type correctness *)

\* Moving a handler to another await keeps its type.
LEMMA GotoType ==
    ASSUME TypeOK, NEW t \in Tasks, NEW l \in PCs, Goto(t, l)
    PROVE  /\ req' \in [Tasks -> Request]
           /\ \A u \in Tasks \ {t} : req'[u] = req[u]
           /\ req'[t] = [req[t] EXCEPT !.pc = l]
<1>1. req[t] \in Request
  BY DEF TypeOK
<1>2. [req[t] EXCEPT !.pc = l] \in Request
  BY <1>1 DEF Request
<1>3. req' = [req EXCEPT ![t] = [req[t] EXCEPT !.pc = l]]
  BY DEF Goto
<1> QED
  BY <1>2, <1>3 DEF TypeOK

\* Keeping what a query found keeps the handler's type.
LEMMA FoundType ==
    ASSUME TypeOK, NEW t \in Tasks, NEW l \in PCs, NEW out \in Outcomes,
           req' = [req EXCEPT ![t].pc = l, ![t].found = out]
    PROVE  /\ req' \in [Tasks -> Request]
           /\ \A u \in Tasks \ {t} : req'[u] = req[u]
           /\ req'[t] = [req[t] EXCEPT !.pc = l, !.found = out]
<1>1. req[t] \in Request
  BY DEF TypeOK
<1>2. [req[t] EXCEPT !.pc = l, !.found = out] \in Request
  BY <1>1 DEF Request
<1>3. req' = [req EXCEPT ![t] = [req[t] EXCEPT !.pc = l, !.found = out]]
  BY DEF TypeOK
<1> QED
  BY <1>2, <1>3 DEF TypeOK

\* _update_order and _insert_order with a row status keep the table's type.
LEMMA SetRowType ==
    ASSUME TypeOK, NEW a \in Accounts, NEW k \in Keys, NEW s \in RowStatuses, SetRow(a, k, s)
    PROVE  orders' \in [Accounts -> [Keys -> RowStatuses]]
BY DEF TypeOK, SetRow

\* Every step of a request handler keeps the types.
LEMMA HandlerTypeOK ==
    ASSUME TypeOK, HandlerInv, NEW t \in Tasks, HandlerStep(t)
    PROVE  TypeOK'
<1> USE DEF dbVars, startVars, netVars, exchVars, boundVars
<1>0. req[t] \in Request /\ req[t].acct \in Accounts /\ req[t].key \in Keys
  BY DEF TypeOK, Request
<1>1. CASE LoadOrder(t)
  BY <1>1, FinishFacts, GotoType DEF LoadOrder, TypeOK, PCs
<1>2. CASE QueryExisting(t)
  <2>1. PICK out \in QueryOutcomes(req[t].acct, req[t].key) :
            IF out \in {"error", "none"}
              THEN Finish(t)
              ELSE /\ req' = [req EXCEPT ![t].pc = "apply", ![t].found = out]
                   /\ UNCHANGED locks
    BY <1>2 DEF QueryExisting
  <2>2. out \in Outcomes
    BY <2>1, <1>0, QueryOutcomesType
  <2>3. req' \in [Tasks -> Request] /\ locks' \in [Accounts -> Tasks \cup {NoTask}]
    BY <2>1, <2>2, FinishFacts, FoundType DEF TypeOK, PCs
  <2> QED
    BY <1>2, <2>3 DEF QueryExisting, TypeOK
<1>3. CASE ApplyExisting(t)
  <2>1. req[t].found \in RowStatuses
    BY <1>3 DEF HandlerInv, HandlerOK, ApplyExisting, At, RowStatuses
  <2> QED
    BY <1>0, <1>3, <2>1, FinishFacts, SetRowType DEF ApplyExisting, TypeOK
<1>4. CASE Preflight(t)
  BY <1>4, FinishFacts, GotoType DEF Preflight, TypeOK, PCs
<1>5. CASE ReadExposure(t)
  BY <1>5, GotoType DEF ReadExposure, TypeOK, PCs
<1>6. CASE EnforceCaps(t)
  <2>1. /\ override' \in [Accounts -> Nat]
        /\ consumed' \in [Accounts -> SUBSET Keys]
    <3>1. CASE UNCHANGED <<override, consumed>>
      BY <3>1 DEF TypeOK
    <3>2. CASE /\ override[req[t].acct] > 0
               /\ override' = [override EXCEPT ![req[t].acct] = @ - 1]
               /\ consumed' = [consumed EXCEPT ![req[t].acct] = @ \cup {req[t].key}]
      <4>1. override[req[t].acct] \in Nat /\ override[req[t].acct] - 1 \in Nat
        BY <1>0, <3>2 DEF TypeOK
      <4>2. consumed[req[t].acct] \cup {req[t].key} \in SUBSET Keys
        BY <1>0 DEF TypeOK
      <4> QED
        BY <3>2, <4>1, <4>2 DEF TypeOK
    <3> QED
      BY <1>6, <3>1, <3>2 DEF EnforceCaps
  <2>2. /\ req' \in [Tasks -> Request]
        /\ locks' \in [Accounts -> Tasks \cup {NoTask}]
    BY <1>6, FinishFacts, GotoType DEF EnforceCaps, TypeOK, PCs
  <2> QED
    BY <1>6, <2>1, <2>2 DEF EnforceCaps, TypeOK
<1>7. CASE InsertOrder(t)
  <2>1. orders' \in [Accounts -> [Keys -> RowStatuses]]
    BY <1>0, <1>7, SetRowType DEF InsertOrder, RowStatuses, ORDER_STATUSES, OpenStatuses
  <2>2. /\ req' \in [Tasks -> Request]
        /\ locks' \in [Accounts -> Tasks \cup {NoTask}]
    BY <1>7, FinishFacts, GotoType DEF InsertOrder, TypeOK, PCs
  <2> QED
    BY <1>7, <2>1, <2>2 DEF InsertOrder, TypeOK
<1>8. CASE SendOrder(t)
  <2>1. wire' \in [Accounts -> [Keys -> Nat]] /\ sent' \in [Accounts -> [Keys -> Nat]]
    BY <1>0, <1>8 DEF SendOrder, TypeOK
  <2>2. req' \in [Tasks -> Request]
    BY <1>8, GotoType DEF SendOrder, PCs
  <2> QED
    BY <1>8, <2>1, <2>2 DEF SendOrder, TypeOK
<1>9. CASE ReceiveReply(t)
  <2>1. (CASE req[t].reply = "refused"      -> "REJECTED"
           [] req[t].reply = "unauthorized" -> "UNKNOWN"
           [] OTHER                         -> req[t].reply) \in RowStatuses
    BY <1>0, <1>9 DEF ReceiveReply, Request, Replies, RowStatuses, ORDER_STATUSES,
                      OpenStatuses, FinalStatuses
  <2> QED
    BY <1>0, <1>9, <2>1, FinishFacts, SetRowType DEF ReceiveReply, TypeOK
<1>10. CASE Timeout(t)
  <2>1. req' \in [Tasks -> Request]
    BY <1>0, <1>10 DEF Timeout, TypeOK, Request, PCs, Replies
  <2> QED
    BY <1>10, <2>1 DEF Timeout, TypeOK
<1>11. CASE QueryAfterTimeout(t)
  <2>1. PICK out \in QueryOutcomes(req[t].acct, req[t].key) :
            req' = [req EXCEPT ![t].pc = "settle", ![t].found = out]
    BY <1>11 DEF QueryAfterTimeout
  <2>2. out \in Outcomes
    BY <2>1, <1>0, QueryOutcomesType
  <2>3. req' \in [Tasks -> Request]
    BY <2>1, <2>2, FoundType DEF PCs
  <2> QED
    BY <1>11, <2>3 DEF QueryAfterTimeout, TypeOK
<1>12. CASE SettleTimeout(t)
  <2>1. (IF req[t].found \in {"error", "none"} THEN "UNKNOWN" ELSE req[t].found) \in RowStatuses
    BY <1>0 DEF Request, Outcomes, RowStatuses, ORDER_STATUSES, OpenStatuses
  <2> QED
    BY <1>0, <1>12, <2>1, FinishFacts, SetRowType DEF SettleTimeout, TypeOK
<1> QED
  BY <1>1, <1>2, <1>3, <1>4, <1>5, <1>6, <1>7, <1>8, <1>9, <1>10, <1>11, <1>12
     DEF HandlerStep

\* An answer from the broker is stored as a reply.
LEMMA DeliverType ==
    ASSUME TypeOK, NEW a \in Accounts, NEW k \in Keys, NEW s \in Replies, Deliver(a, k, s)
    PROVE  req' \in [Tasks -> Request]
<1>1. ASSUME NEW t \in Tasks
      PROVE  /\ req[t] \in Request
             /\ [req[t] EXCEPT !.reply = s] \in Request
  <2>1. req[t] \in Request
    BY DEF TypeOK
  <2> QED
    BY <2>1 DEF Request
<1> QED
  BY <1>1 DEF Deliver

\* Every step keeps the types; a settled timeout and an applied query need what the
\* inductive invariant knows of the status that is written.
LEMMA NextTypeOK ==
    ASSUME TypeOK, HandlerInv, StartupInv, [Next]_vars
    PROVE  TypeOK'
<1> USE DEF dbVars, daemonVars, startVars, netVars, exchVars, boundVars
<1>1. ASSUME NEW t \in Tasks, NEW k \in Keys, NEW T \in SUBSET Accounts \ {{}},
             ExecuteOnAccounts(t, k, T)
      PROVE  TypeOK'
  <2>1. PICK a \in T : req' = [req EXCEPT ![t] = [IdleRequest EXCEPT
                    !.pc = "wait", !.kind = "sized", !.key = k, !.acct = a, !.todo = T,
                    !.real = [x \in Accounts |-> trading_lock[x] = "real"]]]
    BY <1>1 DEF ExecuteOnAccounts
  <2>2. a \in Accounts
    OBVIOUS
  <2>3. [IdleRequest EXCEPT !.pc = "wait", !.kind = "sized", !.key = k, !.acct = a,
            !.todo = T, !.real = [x \in Accounts |-> trading_lock[x] = "real"]] \in Request
    BY <2>2, IdleRequestType DEF Request, PCs
  <2>4. req' \in [Tasks -> Request]
    BY <2>1, <2>3 DEF TypeOK
  <2> QED
    BY <1>1, <2>4 DEF ExecuteOnAccounts, TypeOK
<1>2. ASSUME NEW t \in Tasks, NEW k \in Keys, NEW a \in Accounts, PlaceOrder(t, k, a)
      PROVE  TypeOK'
  <2>1. [IdleRequest EXCEPT !.pc = "wait", !.kind = "direct", !.key = k, !.acct = a,
            !.todo = {a}] \in Request
    BY IdleRequestType DEF Request, PCs
  <2>2. req' \in [Tasks -> Request]
    BY <1>2, <2>1 DEF TypeOK, PlaceOrder
  <2> QED
    BY <1>2, <2>2 DEF PlaceOrder, TypeOK
<1>3. ASSUME NEW t \in Tasks, AcquireLock(t)
      PROVE  TypeOK'
  <2> DEFINE r == req[t]
             real == IF r.kind = "direct"
                       THEN [r.real EXCEPT ![r.acct] = trading_lock[r.acct] = "real"]
                       ELSE r.real
  <2>1. r \in Request /\ r.acct \in Accounts
    BY DEF TypeOK, Request
  <2>2. real \in [Accounts -> BOOLEAN]
    BY <2>1 DEF Request
  <2>3. [r EXCEPT !.pc = "load", !.real = real] \in Request
    BY <2>1, <2>2 DEF Request, PCs
  <2>4. req' = [req EXCEPT ![t] = [r EXCEPT !.pc = "load", !.real = real]]
    BY <1>3, <2>1 DEF AcquireLock, TypeOK, Request
  <2>5. req' \in [Tasks -> Request]
    BY <2>3, <2>4 DEF TypeOK
  <2>6. locks' \in [Accounts -> Tasks \cup {NoTask}]
    BY <1>3, <2>1 DEF AcquireLock, TypeOK
  <2> QED
    BY <1>3, <2>5, <2>6 DEF AcquireLock, TypeOK
<1>4. ASSUME NEW t \in Tasks, HandlerStep(t)
      PROVE  TypeOK'
  BY <1>4, HandlerTypeOK
<1>5. CASE Crash
  <2>1. rec' \in [busy : BOOLEAN, acct : Accounts, key : Keys, found : Outcomes]
    BY <1>5 DEF Crash, NoOrder, Outcomes
  <2> QED
    BY <1>5, <2>1, IdleRequestType DEF Crash, TypeOK
<1>6. CASE StartDaemon
  BY <1>6 DEF StartDaemon, TypeOK
<1>7. ASSUME NEW a \in Accounts, NEW k \in Keys, ReconcileQuery(a, k)
      PROVE  TypeOK'
  <2>1. PICK out \in QueryOutcomes(a, k) :
            IF out = "error"
              THEN errors' = errors \cup {<<a, k>>} /\ UNCHANGED rec
              ELSE /\ rec' = [busy |-> TRUE, acct |-> a, key |-> k, found |-> out]
                   /\ UNCHANGED errors
    BY <1>7 DEF ReconcileQuery
  <2>2. out \in Outcomes
    BY <2>1, QueryOutcomesType
  <2>3. /\ errors' \subseteq Accounts \X Keys
        /\ rec' \in [busy : BOOLEAN, acct : Accounts, key : Keys, found : Outcomes]
    <3>1. CASE out = "error"
      BY <2>1, <3>1 DEF TypeOK
    <3>2. CASE out # "error"
      <4>1. /\ rec' = [busy |-> TRUE, acct |-> a, key |-> k, found |-> out]
            /\ errors' = errors
        BY <2>1, <3>2
      <4> QED
        BY <2>2, <4>1 DEF TypeOK
    <3> QED
      BY <3>1, <3>2
  <2> QED
    BY <1>7, <2>3 DEF ReconcileQuery, TypeOK
<1>8. CASE ReconcileWrite
  <2>1. /\ rec.acct \in Accounts /\ rec.key \in Keys
        /\ (IF rec.found = "none" THEN "UNKNOWN" ELSE rec.found) \in RowStatuses
    BY <1>8 DEF ReconcileWrite, StartupInv, TypeOK, Outcomes, RowStatuses,
                ORDER_STATUSES, OpenStatuses
  <2>2. orders' \in [Accounts -> [Keys -> RowStatuses]]
    BY <1>8, <2>1, SetRowType DEF ReconcileWrite
  <2>3. rec' \in [busy : BOOLEAN, acct : Accounts, key : Keys, found : Outcomes]
    BY <1>8 DEF ReconcileWrite, NoOrder, Outcomes
  <2> QED
    BY <1>8, <2>2, <2>3 DEF ReconcileWrite, TypeOK
<1>9. CASE Serve
  BY <1>9 DEF Serve, TypeOK
<1>10. ASSUME NEW a \in Accounts, FlipTradingLock(a)
       PROVE  TypeOK'
  <2>1. trading_lock' \in [Accounts -> {"paper", "real"}]
    BY <1>10 DEF FlipTradingLock, TypeOK
  <2> QED
    BY <1>10, <2>1 DEF FlipTradingLock, TypeOK
<1>11. ASSUME NEW a \in Accounts, NEW k \in Keys, AcceptOrder(a, k)
       PROVE  TypeOK'
  <2>1. PICK s \in ExchangeStatuses, q \in 0 .. Notional[k] :
          /\ book' = [book EXCEPT ![a][k] = s]
          /\ filled' = [filled EXCEPT ![a][k] = q]
          /\ Deliver(a, k, PlaceStatus(k, s))
    BY <1>11 DEF AcceptOrder
  <2>2. q \in Nat
    BY <2>1
  <2>3. PlaceStatus(k, s) \in Replies
    BY QueryStatusType DEF Replies
  <2>4. req' \in [Tasks -> Request]
    BY <2>1, <2>3, DeliverType
  <2>5. book' \in [Accounts -> [Keys -> ExchangeStatuses \cup {"absent"}]]
    BY <2>1 DEF TypeOK
  <2>6. filled' \in [Accounts -> [Keys -> Nat]]
    BY <2>1, <2>2 DEF TypeOK
  <2>7. wire' \in [Accounts -> [Keys -> Nat]]
    BY <1>11 DEF AcceptOrder, TypeOK
  <2> QED
    BY <1>11, <2>4, <2>5, <2>6, <2>7 DEF AcceptOrder, TypeOK
<1>12. ASSUME NEW a \in Accounts, NEW k \in Keys, RefuseOrder(a, k)
       PROVE  TypeOK'
  <2>1. req' \in [Tasks -> Request]
    BY <1>12, DeliverType DEF RefuseOrder, Replies
  <2>2. wire' \in [Accounts -> [Keys -> Nat]]
    BY <1>12 DEF RefuseOrder, TypeOK
  <2> QED
    BY <1>12, <2>1, <2>2 DEF RefuseOrder, TypeOK
<1>13. ASSUME NEW a \in Accounts, NEW k \in Keys, LoseRequest(a, k)
       PROVE  TypeOK'
  BY <1>13 DEF LoseRequest, TypeOK
<1>14. ASSUME NEW a \in Accounts, NEW k \in Keys, OrderProgress(a, k)
       PROVE  TypeOK'
  <2>1. PICK s \in ExchangeStatuses, q \in filled[a][k] .. Notional[k] :
          /\ book' = [book EXCEPT ![a][k] = s]
          /\ filled' = [filled EXCEPT ![a][k] = q]
    BY <1>14 DEF OrderProgress
  <2>2. q \in Nat
    BY <2>1 DEF TypeOK
  <2>3. book' \in [Accounts -> [Keys -> ExchangeStatuses \cup {"absent"}]]
    BY <2>1 DEF TypeOK
  <2>4. filled' \in [Accounts -> [Keys -> Nat]]
    BY <2>1, <2>2 DEF TypeOK
  <2> QED
    BY <1>14, <2>3, <2>4 DEF OrderProgress, TypeOK
<1>15. CASE UNCHANGED vars
  BY <1>15 DEF vars, TypeOK
<1>16. CASE AbortReconcile
  <2>1. rec' \in [busy : BOOLEAN, acct : Accounts, key : Keys, found : Outcomes]
    BY <1>16 DEF AbortReconcile, NoOrder, Outcomes
  <2>2. errors' \subseteq Accounts \X Keys
    BY <1>16 DEF AbortReconcile, TypeOK
  <2> QED
    BY <1>16, <2>1, <2>2 DEF AbortReconcile, TypeOK
<1> QED
  BY <1>1, <1>2, <1>3, <1>4, <1>5, <1>6, <1>7, <1>8, <1>9, <1>10, <1>11, <1>12, <1>13,
     <1>14, <1>15, <1>16 DEF Next

-----------------------------------------------------------------------------
(* The inductive invariant *)

\* What IInv says besides types.
SafeInv == LockDiscipline /\ SendInv /\ HandlerInv /\ StartupInv /\ FinalRowAgrees

\* The status a handler may write into a row.
Writable(a, k, s) ==
    /\ s \in {"none", "paper"} => sent[a][k] = 0
    /\ s \in FinalStatuses =>
         /\ wire[a][k] = 0
         /\ \/ s = "REJECTED" /\ book[a][k] = "absent"
            \/ book[a][k] # "absent" /\ s = QueryStatus(k, book[a][k])

\* A handler inside `async with lock` holds its account's lock, alone, while the
\* daemon is serving.
LEMMA CriticalFacts ==
    ASSUME IInv, NEW t \in Tasks, Critical(t)
    PROVE  /\ phase = "serving"
           /\ req[t] \in Request /\ req[t].acct \in Accounts /\ req[t].key \in Keys
           /\ \A u \in Tasks \ {t} : Critical(u) => req[u].acct # req[t].acct
<1>1. phase = "serving"
  BY DEF IInv, StartupInv, Critical, At
<1>2. req[t] \in Request /\ req[t].acct \in Accounts /\ req[t].key \in Keys
  BY DEF IInv, TypeOK, Request
<1>3. ASSUME NEW u \in Tasks \ {t}, Critical(u), req[u].acct = req[t].acct
      PROVE  FALSE
  <2>1. locks[req[t].acct] = t /\ locks[req[t].acct] = u
    BY <1>2, <1>3 DEF IInv, LockDiscipline
  <2> QED
    BY <2>1
<1> QED
  BY <1>1, <1>2, <1>3

\* A step of one handler on its own account leaves the others' knowledge valid.
LEMMA OthersKeep ==
    ASSUME IInv, NEW t \in Tasks, Critical(t), NEW u \in Tasks \ {t}, req'[u] = req[u],
           \A a \in Accounts \ {req[t].acct} :
               /\ orders'[a] = orders[a] /\ wire'[a] = wire[a]
               /\ sent'[a] = sent[a] /\ book'[a] = book[a]
    PROVE  HandlerOK(u)'
<1>1. req[u] \in Request /\ req[u].acct \in Accounts /\ req[u].key \in Keys
  BY DEF IInv, TypeOK, Request
<1>2. HandlerOK(u)
  BY DEF IInv, HandlerInv
<1>3. CASE ~Critical(u)
  BY <1>2, <1>3 DEF HandlerOK, Critical
<1>4. CASE Critical(u)
  <2>1. req[u].acct # req[t].acct
    BY <1>4, CriticalFacts
  <2> QED
    BY <1>1, <1>2, <2>1 DEF HandlerOK, Seen
<1> QED
  BY <1>3, <1>4

\* Writing a writable status into the handler's row keeps the row invariants.
LEMMA RowStep ==
    ASSUME IInv, NEW a \in Accounts, NEW k \in Keys, NEW s,
           SetRow(a, k, s), Writable(a, k, s),
           UNCHANGED <<wire, sent, book>>
    PROVE  SendInv' /\ FinalRowAgrees'
<1>1. orders'[a][k] = s
  BY DEF SetRow, IInv, TypeOK
<1>2. \A b \in Accounts, j \in Keys : <<b, j>> # <<a, k>> => orders'[b][j] = orders[b][j]
  BY DEF SetRow, IInv, TypeOK
<1>3. ASSUME NEW b \in Accounts, NEW j \in Keys
      PROVE  SendOK(b, j)' /\ RowAgrees(b, j)'
  <2>1. SendOK(b, j) /\ RowAgrees(b, j)
    BY DEF IInv, SendInv, FinalRowAgrees
  <2>2. CASE <<b, j>> = <<a, k>>
    BY <1>1, <2>1, <2>2 DEF SendOK, RowAgrees, Writable
  <2>3. CASE <<b, j>> # <<a, k>>
    BY <1>2, <2>1, <2>3 DEF SendOK, RowAgrees
  <2> QED
    BY <2>2, <2>3
<1> QED
  BY <1>3 DEF SendInv, FinalRowAgrees

\* Writing one row leaves every other row alone.
LEMMA RowFrame ==
    ASSUME TypeOK, NEW a \in Accounts, NEW k \in Keys, NEW s, SetRow(a, k, s)
    PROVE  \A b \in Accounts \ {a} : orders'[b] = orders[b]
BY DEF SetRow, TypeOK

\* Writing a row's own status back changes nothing.
LEMMA RowSame ==
    ASSUME TypeOK, NEW a \in Accounts, NEW k \in Keys, orders' = orders
    PROVE  SetRow(a, k, orders[a][k])
BY DEF SetRow, TypeOK

\* The status a row already has may be written.
LEMMA OwnRowWritable ==
    ASSUME IInv, NEW a \in Accounts, NEW k \in Keys
    PROVE  Writable(a, k, orders[a][k])
BY DEF IInv, SendInv, SendOK, FinalRowAgrees, RowAgrees, Writable

\* While the daemon is serving, the startup reconcile has nothing to preserve.
LEMMA ServingKeep ==
    ASSUME IInv, phase = "serving", UNCHANGED startVars
    PROVE  StartupInv'
BY DEF IInv, StartupInv, startVars

\* A handler writes its row and leaves the `async with lock` block.
LEMMA FinishStep ==
    ASSUME IInv, NEW t \in Tasks, Critical(t), Finish(t), NEW s,
           SetRow(req[t].acct, req[t].key, s), Writable(req[t].acct, req[t].key, s),
           UNCHANGED <<startVars, wire, sent, book>>
    PROVE  SafeInv'
<1>1. TypeOK
  BY DEF IInv
<1>2. /\ phase = "serving"
      /\ req[t] \in Request /\ req[t].acct \in Accounts /\ req[t].key \in Keys
  BY CriticalFacts
<1>3. /\ locks' = [locks EXCEPT ![req[t].acct] = NoTask]
      /\ \A u \in Tasks \ {t} : req'[u] = req[u]
      /\ req'[t].pc \in {"idle", "wait"} /\ req'[t].reply = "none"
  BY <1>1, FinishFacts
<1>4. LockDiscipline'
  <2>1. ASSUME NEW a \in Accounts, NEW u \in Tasks
        PROVE  (locks[a] = u <=> Critical(u) /\ req[u].acct = a)'
    <3>1. locks[a] = u <=> Critical(u) /\ req[u].acct = a
      BY DEF IInv, LockDiscipline
    <3>2. locks[req[t].acct] = t
      BY <1>2 DEF IInv, LockDiscipline
    <3>3. CASE u = t
      <4>1. ~Critical(u)'
        BY <1>3, <3>3 DEF Critical
      <4>2. locks'[a] # u
        BY <1>1, <1>2, <1>3, <3>1, <3>3 DEF TypeOK
      <4> QED
        BY <4>1, <4>2
    <3>4. CASE u # t
      <4>1. req'[u] = req[u]
        BY <1>3, <3>4
      <4>2. locks'[a] = u <=> locks[a] = u
        BY <1>1, <1>2, <1>3, <3>2, <3>4 DEF TypeOK
      <4> QED
        BY <3>1, <4>1, <4>2 DEF Critical
    <3> QED
      BY <3>3, <3>4
  <2> QED
    BY <2>1 DEF LockDiscipline
<1>5. SendInv' /\ FinalRowAgrees'
  BY <1>2, RowStep
<1>6. HandlerInv'
  <2>1. HandlerOK(t)'
    BY <1>3 DEF HandlerOK
  <2>2. ASSUME NEW u \in Tasks \ {t}
        PROVE  HandlerOK(u)'
    BY <1>1, <1>2, <1>3, RowFrame, OthersKeep
  <2> QED
    BY <2>1, <2>2 DEF HandlerInv
<1>7. StartupInv'
  BY <1>2, ServingKeep
<1> QED
  BY <1>4, <1>5, <1>6, <1>7 DEF SafeInv

\* A handler writes its row and goes on, holding its lock.
LEMMA ContinueStep ==
    ASSUME IInv, NEW t \in Tasks, Critical(t), NEW s,
           SetRow(req[t].acct, req[t].key, s), Writable(req[t].acct, req[t].key, s),
           \A u \in Tasks \ {t} : req'[u] = req[u],
           req'[t].acct = req[t].acct, Critical(t)', HandlerOK(t)',
           UNCHANGED <<locks, startVars, wire, sent, book>>
    PROVE  SafeInv'
<1>1. TypeOK
  BY DEF IInv
<1>2. /\ phase = "serving"
      /\ req[t] \in Request /\ req[t].acct \in Accounts /\ req[t].key \in Keys
  BY CriticalFacts
<1>3. LockDiscipline'
  BY DEF IInv, LockDiscipline, Critical
<1>4. SendInv' /\ FinalRowAgrees'
  BY <1>2, RowStep
<1>5. HandlerInv'
  <2>1. ASSUME NEW u \in Tasks \ {t}
        PROVE  HandlerOK(u)'
    BY <1>1, <1>2, RowFrame, OthersKeep
  <2> QED
    BY <2>1 DEF HandlerInv
<1>6. StartupInv'
  BY <1>2, ServingKeep
<1> QED
  BY <1>3, <1>4, <1>5, <1>6 DEF SafeInv

\* A handler that only moves on: no row is written.
LEMMA MoveStep ==
    ASSUME IInv, NEW t \in Tasks, Critical(t),
           \A u \in Tasks \ {t} : req'[u] = req[u],
           req'[t].acct = req[t].acct, Critical(t)', HandlerOK(t)',
           UNCHANGED <<orders, locks, startVars, wire, sent, book>>
    PROVE  SafeInv'
<1>1. TypeOK
  BY DEF IInv
<1>2. req[t].acct \in Accounts /\ req[t].key \in Keys
  BY CriticalFacts
<1> QED
  BY <1>1, <1>2, RowSame, OwnRowWritable, ContinueStep

\* A handler that leaves its block without writing.
LEMMA LeaveStep ==
    ASSUME IInv, NEW t \in Tasks, Critical(t), Finish(t),
           UNCHANGED <<orders, startVars, wire, sent, book>>
    PROVE  SafeInv'
<1>1. TypeOK
  BY DEF IInv
<1>2. req[t].acct \in Accounts /\ req[t].key \in Keys
  BY CriticalFacts
<1> QED
  BY <1>1, <1>2, RowSame, OwnRowWritable, FinishStep

\* Going to a state that promises what the current one already knows.
LEMMA GotoStep ==
    ASSUME IInv, NEW t \in Tasks, Critical(t), NEW l \in PCs, Goto(t, l),
           l \in {"preflight", "exposure", "caps", "insert"} =>
               orders[req[t].acct][req[t].key] = "none",
           l = "query" => orders[req[t].acct][req[t].key] \in OpenStatuses,
           l \in {"preflight", "exposure", "caps", "insert", "query"},
           req[t].pc # "await",
           UNCHANGED <<orders, locks, startVars, wire, sent, book>>
    PROVE  SafeInv'
<1>1. TypeOK
  BY DEF IInv
<1>2. req[t] \in Request
  BY CriticalFacts
<1>3. /\ \A u \in Tasks \ {t} : req'[u] = req[u]
      /\ req'[t] = [req[t] EXCEPT !.pc = l]
  BY <1>1, GotoType
<1>4. /\ req'[t].pc = l /\ req'[t].acct = req[t].acct
      /\ req'[t].key = req[t].key /\ req'[t].reply = req[t].reply
  BY <1>2, <1>3 DEF Request
<1>5. HandlerOK(t)' /\ Critical(t)'
  BY <1>4 DEF IInv, HandlerInv, HandlerOK, Critical
<1> QED
  BY <1>3, <1>4, <1>5, MoveStep

\* Every step of a request handler keeps the safety part of the invariant.
LEMMA HandlerSafe ==
    ASSUME IInv, NEW t \in Tasks, HandlerStep(t)
    PROVE  SafeInv'
<1> USE DEF dbVars, netVars, exchVars, boundVars
<1> DEFINE r == req[t]
<1>1. Critical(t)
  BY DEF HandlerStep, LoadOrder, QueryExisting, ApplyExisting, Preflight, ReadExposure,
         EnforceCaps, InsertOrder, SendOrder, ReceiveReply, Timeout, QueryAfterTimeout,
         SettleTimeout, At, Critical
<1>2. TypeOK /\ HandlerOK(t) /\ SendOK(r.acct, r.key)
  BY <1>1, CriticalFacts DEF IInv, HandlerInv, SendInv
<1>3. r \in Request /\ r.acct \in Accounts /\ r.key \in Keys
  BY <1>1, CriticalFacts
<1>4. CASE LoadOrder(t)
  BY <1>1, <1>4, GotoStep, LeaveStep DEF LoadOrder, At, PCs
<1>5. CASE QueryExisting(t)
  <2>1. PICK out \in QueryOutcomes(r.acct, r.key) :
            IF out \in {"error", "none"}
              THEN Finish(t)
              ELSE /\ req' = [req EXCEPT ![t].pc = "apply", ![t].found = out]
                   /\ UNCHANGED locks
    BY <1>5 DEF QueryExisting
  <2>2. out \in Outcomes /\ Seen(r.acct, r.key, out)
    BY <1>2, <1>3, QueryOutcomesType
  <2>3. CASE out \in {"error", "none"}
    BY <1>1, <1>5, <2>1, <2>3, LeaveStep DEF QueryExisting
  <2>4. CASE out \notin {"error", "none"}
    <3>1. /\ \A u \in Tasks \ {t} : req'[u] = req[u]
          /\ req'[t] = [r EXCEPT !.pc = "apply", !.found = out]
      BY <1>2, <2>1, <2>2, <2>4, FoundType DEF PCs
    <3>2. /\ req'[t].pc = "apply" /\ req'[t].found = out
          /\ req'[t].acct = r.acct /\ req'[t].key = r.key /\ req'[t].reply = r.reply
      BY <1>3, <3>1 DEF Request
    <3>3. out \in ORDER_STATUSES
      BY <2>2, <2>4 DEF Outcomes
    <3>4. HandlerOK(t)' /\ Critical(t)'
      BY <1>2, <1>5, <2>2, <3>2, <3>3 DEF HandlerOK, Critical, QueryExisting, At, Seen
    <3> QED
      BY <1>1, <1>5, <2>1, <2>4, <3>1, <3>2, <3>4, MoveStep DEF QueryExisting
  <2> QED
    BY <2>3, <2>4
<1>6. CASE ApplyExisting(t)
  <2>1. Writable(r.acct, r.key, r.found)
    BY <1>2, <1>6 DEF ApplyExisting, At, HandlerOK, SendOK, Seen, Writable,
                      ORDER_STATUSES, OpenStatuses, FinalStatuses
  <2> QED
    BY <1>1, <1>6, <2>1, FinishStep DEF ApplyExisting
<1>7. CASE Preflight(t)
  BY <1>1, <1>2, <1>7, GotoStep, LeaveStep DEF Preflight, At, HandlerOK, PCs
<1>8. CASE ReadExposure(t)
  BY <1>1, <1>2, <1>8, GotoStep DEF ReadExposure, At, HandlerOK, PCs
<1>9. CASE EnforceCaps(t)
  <2>1. CASE Goto(t, "insert") /\ UNCHANGED locks
    BY <1>1, <1>2, <1>9, <2>1, GotoStep DEF EnforceCaps, At, HandlerOK, PCs
  <2>2. CASE Finish(t)
    BY <1>1, <1>9, <2>2, LeaveStep DEF EnforceCaps
  <2> QED
    BY <1>9, <2>1, <2>2 DEF EnforceCaps
<1>10. CASE InsertOrder(t)
  <2>0. sent[r.acct][r.key] = 0
    BY <1>2, <1>10 DEF InsertOrder, SendOK
  <2>1. CASE SetRow(r.acct, r.key, "NEW") /\ Goto(t, "send") /\ UNCHANGED locks
    <3>1. /\ \A u \in Tasks \ {t} : req'[u] = req[u]
          /\ req'[t] = [r EXCEPT !.pc = "send"]
      BY <1>2, <2>1, GotoType DEF PCs
    <3>2. /\ req'[t].pc = "send" /\ req'[t].reply = r.reply
          /\ req'[t].acct = r.acct /\ req'[t].key = r.key
      BY <1>3, <3>1 DEF Request
    <3>3. orders'[r.acct][r.key] = "NEW" /\ sent' = sent
      BY <1>2, <1>3, <1>10, <2>1 DEF InsertOrder, SetRow, TypeOK
    <3>4. HandlerOK(t)' /\ Critical(t)'
      BY <1>2, <1>10, <2>0, <3>2, <3>3 DEF InsertOrder, At, HandlerOK, Critical
    <3>5. Writable(r.acct, r.key, "NEW")
      BY DEF Writable, FinalStatuses
    <3> QED
      BY <1>1, <1>10, <2>1, <3>1, <3>2, <3>4, <3>5, ContinueStep DEF InsertOrder
  <2>2. CASE SetRow(r.acct, r.key, "paper") /\ Finish(t)
    <3>1. Writable(r.acct, r.key, "paper")
      BY <2>0 DEF Writable, FinalStatuses
    <3> QED
      BY <1>1, <1>10, <2>2, <3>1, FinishStep DEF InsertOrder
  <2> QED
    BY <1>10, <2>1, <2>2 DEF InsertOrder
<1>11. CASE SendOrder(t)
  <2>1. /\ orders[r.acct][r.key] = "NEW" /\ sent[r.acct][r.key] = 0
        /\ wire[r.acct][r.key] = 0 /\ book[r.acct][r.key] = "absent"
    <3>1. sent[r.acct][r.key] \in Nat /\ wire[r.acct][r.key] \in Nat
      BY <1>2, <1>3 DEF TypeOK
    <3> QED
      BY <1>2, <1>11, <3>1 DEF SendOrder, At, HandlerOK, SendOK
  <2>2. /\ wire'[r.acct][r.key] = 1 /\ sent'[r.acct][r.key] = 1
        /\ \A b \in Accounts, j \in Keys : <<b, j>> # <<r.acct, r.key>> =>
               wire'[b][j] = wire[b][j] /\ sent'[b][j] = sent[b][j]
        /\ \A b \in Accounts \ {r.acct} : wire'[b] = wire[b] /\ sent'[b] = sent[b]
    BY <1>2, <1>3, <1>11, <2>1 DEF SendOrder, TypeOK
  <2>3. /\ \A u \in Tasks \ {t} : req'[u] = req[u]
        /\ req'[t] = [r EXCEPT !.pc = "await"]
    BY <1>2, <1>11, GotoType DEF SendOrder, PCs
  <2>4. req'[t].pc = "await" /\ req'[t].acct = r.acct /\ req'[t].key = r.key
        /\ req'[t].reply = r.reply
    BY <1>3, <2>3 DEF Request
  <2>5. LockDiscipline'
    <3>1. locks' = locks
      BY <1>11 DEF SendOrder
    <3>2. Critical(t)'
      BY <2>4 DEF Critical
    <3>3. LockDiscipline
      BY DEF IInv
    <3>4. \A u \in Tasks : req'[u].acct = req[u].acct /\ (Critical(u)' <=> Critical(u))
      BY <1>1, <2>3, <2>4, <3>2 DEF Critical
    <3> QED
      BY <3>1, <3>3, <3>4 DEF LockDiscipline
  <2>6. SendInv' /\ FinalRowAgrees'
    <3>1. ASSUME NEW b \in Accounts, NEW j \in Keys
          PROVE  SendOK(b, j)' /\ RowAgrees(b, j)'
      <4>1. SendOK(b, j) /\ RowAgrees(b, j)
        BY DEF IInv, SendInv, FinalRowAgrees
      <4>2. orders' = orders /\ book' = book
        BY <1>11 DEF SendOrder
      <4>3. CASE <<b, j>> = <<r.acct, r.key>>
        BY <2>1, <2>2, <4>2, <4>3 DEF SendOK, RowAgrees, FinalStatuses
      <4>4. CASE <<b, j>> # <<r.acct, r.key>>
        BY <2>2, <4>1, <4>2, <4>4 DEF SendOK, RowAgrees
      <4> QED
        BY <4>3, <4>4
    <3> QED
      BY <3>1 DEF SendInv, FinalRowAgrees
  <2>7. HandlerInv'
    <3>1. HandlerOK(t)'
      <4>1. orders' = orders
        BY <1>11 DEF SendOrder
      <4>2. r.reply = "none"
        BY <1>2, <1>11 DEF SendOrder, At, HandlerOK
      <4>3. sent'[r.acct][r.key] = 1
        BY <2>2
      <4> QED
        BY <2>1, <2>4, <4>1, <4>2, <4>3 DEF HandlerOK
    <3>2. ASSUME NEW u \in Tasks \ {t}
          PROVE  HandlerOK(u)'
      BY <1>1, <1>11, <2>2, <2>3, OthersKeep DEF SendOrder
    <3> QED
      BY <3>1, <3>2 DEF HandlerInv
  <2>8. StartupInv'
    BY <1>1, <1>11, CriticalFacts, ServingKeep DEF SendOrder
  <2> QED
    BY <2>5, <2>6, <2>7, <2>8 DEF SafeInv
<1>12. CASE ReceiveReply(t)
  <2> DEFINE s == CASE r.reply = "refused"      -> "REJECTED"
                    [] r.reply = "unauthorized" -> "UNKNOWN"
                    [] OTHER                    -> r.reply
  <2>1. SetRow(r.acct, r.key, s)
    BY <1>12 DEF ReceiveReply
  <2>2. Writable(r.acct, r.key, s)
    <3>1. /\ r.reply \in Replies \ {"none"}
          /\ wire[r.acct][r.key] = 0
          /\ r.reply = "refused" => book[r.acct][r.key] = "absent"
          /\ Seen(r.acct, r.key, r.reply)
      BY <1>2, <1>3, <1>12 DEF ReceiveReply, At, HandlerOK, Request
    <3> QED
      BY <3>1 DEF Writable, Seen, Replies, ORDER_STATUSES, OpenStatuses, FinalStatuses
  <2> QED
    BY <1>1, <1>12, <2>1, <2>2, FinishStep DEF ReceiveReply
<1>13. CASE Timeout(t)
  <2>1. req' = [req EXCEPT ![t] = [r EXCEPT !.pc = "timeout", !.reply = "none"]]
    BY <1>2, <1>13 DEF Timeout, TypeOK
  <2>2. /\ \A u \in Tasks \ {t} : req'[u] = req[u]
        /\ req'[t] = [r EXCEPT !.pc = "timeout", !.reply = "none"]
    BY <1>2, <2>1 DEF TypeOK
  <2>3. /\ req'[t].pc = "timeout" /\ req'[t].reply = "none"
        /\ req'[t].acct = r.acct /\ req'[t].key = r.key
    BY <1>3, <2>2 DEF Request
  <2>4. HandlerOK(t)' /\ Critical(t)'
    BY <1>2, <1>13, <2>3 DEF HandlerOK, Critical, Timeout, At
  <2> QED
    BY <1>1, <1>13, <2>2, <2>3, <2>4, MoveStep DEF Timeout
<1>14. CASE QueryAfterTimeout(t)
  <2>1. PICK out \in QueryOutcomes(r.acct, r.key) :
            req' = [req EXCEPT ![t].pc = "settle", ![t].found = out]
    BY <1>14 DEF QueryAfterTimeout
  <2>2. out \in Outcomes /\ Seen(r.acct, r.key, out)
    BY <1>2, <1>3, QueryOutcomesType
  <2>3. /\ \A u \in Tasks \ {t} : req'[u] = req[u]
        /\ req'[t] = [r EXCEPT !.pc = "settle", !.found = out]
    BY <1>2, <2>1, <2>2, FoundType DEF PCs
  <2>4. /\ req'[t].pc = "settle" /\ req'[t].found = out
        /\ req'[t].acct = r.acct /\ req'[t].key = r.key /\ req'[t].reply = r.reply
    BY <1>3, <2>3 DEF Request
  <2>5. HandlerOK(t)' /\ Critical(t)'
    BY <1>2, <1>14, <2>2, <2>4 DEF HandlerOK, Critical, QueryAfterTimeout, At, Seen
  <2> QED
    BY <1>1, <1>14, <2>3, <2>4, <2>5, MoveStep DEF QueryAfterTimeout
<1>15. CASE SettleTimeout(t)
  <2> DEFINE s == IF r.found \in {"error", "none"} THEN "UNKNOWN" ELSE r.found
  <2>1. SetRow(r.acct, r.key, s)
    BY <1>15 DEF SettleTimeout
  <2>2. Writable(r.acct, r.key, s)
    <3>1. r.found \in Outcomes /\ Seen(r.acct, r.key, r.found)
      BY <1>2, <1>3, <1>15 DEF SettleTimeout, At, HandlerOK, Request
    <3> QED
      BY <1>2, <3>1 DEF Writable, Seen, SendOK, Outcomes, ORDER_STATUSES, OpenStatuses,
                        FinalStatuses
  <2> QED
    BY <1>1, <1>15, <2>1, <2>2, FinishStep DEF SettleTimeout
<1> QED
  BY <1>4, <1>5, <1>6, <1>7, <1>8, <1>9, <1>10, <1>11, <1>12, <1>13, <1>14, <1>15
     DEF HandlerStep

\* A new request changes nothing but the handler that takes it.
LEMMA ArriveStep ==
    ASSUME IInv, NEW t \in Tasks, At(t, "idle"), phase = "serving",
           \A u \in Tasks \ {t} : req'[u] = req[u],
           req'[t].pc = "wait", req'[t].reply = "none",
           UNCHANGED <<orders, locks, startVars, wire, sent, book>>
    PROVE  SafeInv'
<1>1. LockDiscipline'
  <2>1. \A u \in Tasks : ~Critical(u)' <=> ~Critical(u)
    BY DEF Critical, At
  <2>2. \A u \in Tasks : Critical(u) => req'[u] = req[u]
    BY DEF Critical, At
  <2>3. LockDiscipline
    BY DEF IInv
  <2> QED
    BY <2>1, <2>2, <2>3 DEF LockDiscipline
<1>2. SendInv' /\ FinalRowAgrees'
  BY DEF IInv, SendInv, SendOK, FinalRowAgrees, RowAgrees
<1>3. HandlerInv'
  <2>1. HandlerOK(t)'
    BY DEF HandlerOK
  <2>2. ASSUME NEW u \in Tasks \ {t}
        PROVE  HandlerOK(u)'
    BY DEF IInv, HandlerInv, HandlerOK, Seen
  <2> QED
    BY <2>1, <2>2 DEF HandlerInv
<1>4. StartupInv'
  BY ServingKeep
<1> QED
  BY <1>1, <1>2, <1>3, <1>4 DEF SafeInv

\* Entering `async with lock` keeps the safety part of the invariant.
LEMMA AcquireSafe ==
    ASSUME IInv, NEW t \in Tasks, AcquireLock(t)
    PROVE  SafeInv'
<1> USE DEF dbVars, netVars, exchVars, boundVars
<1> DEFINE r == req[t]
           real == IF r.kind = "direct"
                     THEN [r.real EXCEPT ![r.acct] = trading_lock[r.acct] = "real"]
                     ELSE r.real
<1>1. TypeOK /\ r \in Request /\ r.acct \in Accounts
  BY DEF IInv, TypeOK, Request
<1>2. req' = [req EXCEPT ![t] = [r EXCEPT !.pc = "load", !.real = real]]
  BY <1>1 DEF AcquireLock, TypeOK, Request
<1>3. /\ \A u \in Tasks \ {t} : req'[u] = req[u]
      /\ req'[t] = [r EXCEPT !.pc = "load", !.real = real]
  BY <1>1, <1>2 DEF TypeOK
<1>4. /\ req'[t].pc = "load" /\ req'[t].acct = r.acct /\ req'[t].key = r.key
      /\ req'[t].reply = r.reply
  BY <1>1, <1>3 DEF Request
<1>5. LockDiscipline'
  <2>1. /\ locks[r.acct] = NoTask
        /\ locks'[r.acct] = t
        /\ \A a \in Accounts \ {r.acct} : locks'[a] = locks[a]
    BY <1>1 DEF AcquireLock, TypeOK
  <2>2. Critical(t)' /\ ~Critical(t)
    BY <1>4 DEF Critical, AcquireLock, At
  <2>3. LockDiscipline
    BY DEF IInv
  <2>4. \A u \in Tasks \ {t} : (Critical(u)' <=> Critical(u)) /\ req'[u].acct = req[u].acct
    BY <1>3 DEF Critical
  <2>5. ASSUME NEW a \in Accounts, NEW u \in Tasks
        PROVE  locks'[a] = u <=> Critical(u)' /\ req'[u].acct = a
    <3>1. locks[a] = u <=> Critical(u) /\ req[u].acct = a
      BY <2>3 DEF LockDiscipline
    <3>2. CASE u = t
      BY <1>4, <2>1, <2>2, <3>1, <3>2
    <3>3. CASE u # t /\ a = r.acct
      BY <2>1, <2>4, <3>1, <3>3
    <3>4. CASE u # t /\ a # r.acct
      BY <2>1, <2>4, <3>1, <3>4
    <3> QED
      BY <3>2, <3>3, <3>4
  <2> QED
    BY <2>5 DEF LockDiscipline
<1>6. SendInv' /\ FinalRowAgrees'
  BY DEF AcquireLock, IInv, SendInv, SendOK, FinalRowAgrees, RowAgrees
<1>7. HandlerInv'
  <2>1. HandlerOK(t)'
    BY <1>4 DEF AcquireLock, At, IInv, HandlerInv, HandlerOK
  <2>2. ASSUME NEW u \in Tasks \ {t}
        PROVE  HandlerOK(u)'
    <3>1. HandlerOK(u) /\ req'[u] = req[u]
      BY <1>3 DEF IInv, HandlerInv
    <3>2. UNCHANGED <<orders, wire, sent, book>>
      BY DEF AcquireLock
    <3> QED
      BY <3>1, <3>2 DEF HandlerOK, Seen
  <2> QED
    BY <2>1, <2>2 DEF HandlerInv
<1>8. StartupInv'
  <2>1. phase = "serving"
    BY DEF IInv, StartupInv, AcquireLock, At
  <2> QED
    BY <2>1, ServingKeep DEF AcquireLock
<1> QED
  BY <1>5, <1>6, <1>7, <1>8 DEF SafeInv

\* Steps that leave the handlers, the locks, the rows and the exchange alone.
LEMMA DaemonStep ==
    ASSUME IInv, UNCHANGED <<orders, locks, req, wire, sent, book>>
    PROVE  LockDiscipline' /\ SendInv' /\ HandlerInv' /\ FinalRowAgrees'
BY DEF IInv, LockDiscipline, Critical, SendInv, SendOK, HandlerInv, HandlerOK, Seen,
       FinalRowAgrees, RowAgrees

\* A crash, the restart and every step of reconcile_open_orders keep the safety part.
LEMMA StartupSafe ==
    ASSUME IInv, Crash \/ StartDaemon \/ ReconcileWrite \/ AbortReconcile \/ Serve \/
                 \E a \in Accounts, k \in Keys : ReconcileQuery(a, k)
    PROVE  SafeInv'
<1> USE DEF dbVars, netVars, exchVars, boundVars
<1>0. TypeOK
  BY DEF IInv
<1>1. CASE Crash
  <2>1. /\ \A t \in Tasks : req'[t].pc = "idle" /\ req'[t].reply = "none"
        /\ \A a \in Accounts : locks'[a] = NoTask
    BY <1>1 DEF Crash, IdleRequest
  <2>2. LockDiscipline'
    BY <2>1 DEF LockDiscipline, Critical
  <2>3. SendInv' /\ FinalRowAgrees'
    BY <1>1 DEF Crash, IInv, SendInv, SendOK, FinalRowAgrees, RowAgrees
  <2>4. HandlerInv'
    BY <2>1 DEF HandlerInv, HandlerOK
  <2>5. StartupInv'
    BY <1>1, <2>1 DEF Crash, StartupInv, NoOrder, At
  <2> QED
    BY <2>2, <2>3, <2>4, <2>5 DEF SafeInv
<1>2. CASE StartDaemon
  <2>1. StartupInv'
    BY <1>0, <1>2 DEF StartDaemon, IInv, StartupInv, At
  <2> QED
    BY <1>2, <2>1, DaemonStep DEF StartDaemon, SafeInv
<1>3. ASSUME NEW a \in Accounts, NEW k \in Keys, ReconcileQuery(a, k)
      PROVE  SafeInv'
  <2>1. PICK out \in QueryOutcomes(a, k) :
            IF out = "error"
              THEN errors' = errors \cup {<<a, k>>} /\ UNCHANGED rec
              ELSE /\ rec' = [busy |-> TRUE, acct |-> a, key |-> k, found |-> out]
                   /\ UNCHANGED errors
    BY <1>3 DEF ReconcileQuery
  <2>2. Seen(a, k, out)
    BY <1>0, QueryOutcomesType
  <2>3. StartupInv'
    <3>1. /\ phase' = "reconciling" /\ stuck' = stuck \ {<<a, k>>} /\ orders' = orders
          /\ req' = req /\ book' = book /\ ~rec.busy /\ orders[a][k] \in OpenStatuses
          /\ StartupInv
      BY <1>3 DEF ReconcileQuery, IInv, StartupInv
    <3>2. CASE out = "error"
      BY <1>3, <2>1, <3>1, <3>2 DEF ReconcileQuery, StartupInv, At
    <3>3. CASE out # "error"
      <4>1. rec' = [busy |-> TRUE, acct |-> a, key |-> k, found |-> out]
        BY <2>1, <3>3
      <4>2. /\ rec'.acct = a /\ rec'.key = k /\ rec'.found = out
        BY <4>1
      <4>3. \A p \in stuck' : orders'[p[1]][p[2]] \in OpenStatuses
        BY <3>1 DEF StartupInv
      <4>4. /\ orders'[rec'.acct][rec'.key] \in OpenStatuses
            /\ rec'.found # "error"
            /\ <<rec'.acct, rec'.key>> \notin stuck'
        BY <3>1, <3>3, <4>2
      <4>5. Seen(rec.acct, rec.key, rec.found)'
        BY <2>2, <3>1, <4>2 DEF Seen
      <4>6. \A t \in Tasks : At(t, "idle")'
        BY <1>3, <3>1 DEF ReconcileQuery, StartupInv, At
      <4> QED
        BY <3>1, <4>3, <4>4, <4>5, <4>6 DEF StartupInv
    <3> QED
      BY <3>2, <3>3
  <2> QED
    BY <1>3, <2>3, DaemonStep DEF ReconcileQuery, SafeInv
<1>4. CASE ReconcileWrite
  <2> DEFINE a == rec.acct
             k == rec.key
             s == IF rec.found = "none" THEN "UNKNOWN" ELSE rec.found
  <2>1. a \in Accounts /\ k \in Keys /\ rec.found \in Outcomes
    BY <1>0 DEF TypeOK
  <2>2. /\ phase = "reconciling" /\ rec.busy /\ SetRow(a, k, s)
        /\ rec' = NoOrder /\ stuck' = stuck /\ phase' = phase /\ req' = req /\ locks' = locks
        /\ UNCHANGED <<wire, sent, book>>
    BY <1>4 DEF ReconcileWrite
  <2>3. StartupInv /\ SendOK(a, k) /\ Seen(a, k, rec.found) /\ rec.found # "error"
        /\ <<a, k>> \notin stuck /\ \A t \in Tasks : At(t, "idle")
    BY <2>1, <2>2 DEF IInv, StartupInv, SendInv
  <2>4. Writable(a, k, s)
    BY <2>1, <2>3 DEF Writable, Seen, SendOK, Outcomes, ORDER_STATUSES, OpenStatuses,
                      FinalStatuses
  <2>5. SendInv' /\ FinalRowAgrees'
    BY <2>1, <2>2, <2>4, RowStep
  <2>6. LockDiscipline'
    BY <2>2 DEF IInv, LockDiscipline, Critical
  <2>7. HandlerInv'
    BY <2>2, <2>3 DEF IInv, HandlerInv, HandlerOK, At
  <2>8. StartupInv'
    <3>1. \A b \in Accounts, j \in Keys : <<b, j>> # <<a, k>> => orders'[b][j] = orders[b][j]
      BY <1>0, <2>1, <2>2 DEF SetRow, TypeOK
    <3>2. \A p \in stuck : p \in Accounts \X Keys /\ p # <<a, k>>
      BY <1>0, <2>3 DEF TypeOK
    <3>3. \A p \in stuck' : orders'[p[1]][p[2]] \in OpenStatuses
      BY <2>2, <2>3, <3>1, <3>2 DEF StartupInv
    <3> QED
      BY <2>2, <2>3, <3>3 DEF StartupInv, NoOrder, At
  <2> QED
    BY <2>5, <2>6, <2>7, <2>8 DEF SafeInv
<1>5. CASE Serve
  <2>1. StartupInv'
    BY <1>5 DEF Serve, IInv, StartupInv
  <2> QED
    BY <1>5, <2>1, DaemonStep DEF Serve, SafeInv
<1>6. CASE AbortReconcile
  <2>1. StartupInv'
    BY <1>6 DEF AbortReconcile, NoOrder, IInv, StartupInv, At
  <2> QED
    BY <1>6, <2>1, DaemonStep DEF AbortReconcile, SafeInv
<1> QED
  BY <1>1, <1>2, <1>3, <1>4, <1>5, <1>6

\* An answer reaches only a handler that waits for it, and is only stored.
LEMMA DeliverFacts ==
    ASSUME TypeOK, NEW a \in Accounts, NEW k \in Keys, NEW s \in Replies, Deliver(a, k, s)
    PROVE  \A t \in Tasks :
             /\ req'[t].pc = req[t].pc /\ req'[t].acct = req[t].acct
             /\ req'[t].key = req[t].key /\ req'[t].found = req[t].found
             /\ IF req[t].pc = "await" /\ req[t].acct = a /\ req[t].key = k
                  THEN req'[t].reply = s
                  ELSE req'[t].reply = req[t].reply
<1> TAKE t \in Tasks
<1>1. req[t] \in Request
  BY DEF TypeOK
<1>2. req'[t] = IF req[t].pc = "await" /\ req[t].acct = a /\ req[t].key = k
                  THEN [req[t] EXCEPT !.reply = s]
                  ELSE req[t]
  BY DEF Deliver
<1> QED
  BY <1>1, <1>2 DEF Request

\* The lock discipline only depends on the locks and on where the handlers are.
LEMMA LocksKept ==
    ASSUME IInv, locks' = locks,
           \A t \in Tasks : req'[t].pc = req[t].pc /\ req'[t].acct = req[t].acct
    PROVE  LockDiscipline'
<1>1. LockDiscipline
  BY DEF IInv
<1>2. \A t \in Tasks : Critical(t)' <=> Critical(t)
  BY DEF Critical
<1> QED
  BY <1>1, <1>2 DEF LockDiscipline

\* What the network and the exchange do on their own keeps the safety part: an order
\* that arrives late, is refused, gets lost or trades contradicts no row and no handler.
LEMMA ExchangeSafe ==
    ASSUME IInv, NEW a \in Accounts, NEW k \in Keys,
           AcceptOrder(a, k) \/ RefuseOrder(a, k) \/ LoseRequest(a, k) \/ OrderProgress(a, k)
    PROVE  SafeInv'
<1> USE DEF dbVars, daemonVars, startVars, netVars, exchVars, boundVars
<1>0. /\ TypeOK /\ LockDiscipline /\ SendInv /\ HandlerInv /\ StartupInv /\ FinalRowAgrees
      /\ SendOK(a, k) /\ RowAgrees(a, k)
      /\ wire[a][k] \in Nat /\ sent[a][k] \in Nat
  BY DEF IInv, SendInv, FinalRowAgrees, TypeOK
<1>1. \A t \in Tasks : req[t].acct \in Accounts /\ req[t].key \in Keys
  BY <1>0 DEF TypeOK, Request
<1>2. CASE AcceptOrder(a, k)
  <2>1. PICK s \in ExchangeStatuses :
          /\ book' = [book EXCEPT ![a][k] = s]
          /\ Deliver(a, k, PlaceStatus(k, s))
    BY <1>2 DEF AcceptOrder
  <2>2. /\ PlaceStatus(k, s) \in Replies
        /\ PlaceStatus(k, s) # "refused" /\ PlaceStatus(k, s) # "none"
        /\ PlaceStatus(k, s) \in FinalStatuses => PlaceStatus(k, s) = QueryStatus(k, s)
    BY QueryStatusType DEF Replies, ORDER_STATUSES, OpenStatuses, FinalStatuses
  <2>3. /\ book[a][k] = "absent" /\ book'[a][k] = s /\ s # "absent"
        /\ wire[a][k] = 1 /\ sent[a][k] = 1 /\ wire'[a][k] = 0 /\ sent' = sent
        /\ orders' = orders /\ locks' = locks /\ UNCHANGED startVars
    <3>1. /\ book[a][k] = "absent" /\ wire[a][k] > 0
          /\ wire' = [wire EXCEPT ![a][k] = @ - 1]
          /\ UNCHANGED <<orders, locks, sent, startVars>>
      BY <1>2 DEF AcceptOrder
    <3>2. wire[a][k] = 1 /\ sent[a][k] = 1
      BY <1>0, <3>1 DEF SendOK
    <3>3. wire'[a][k] = 0
      BY <1>0, <3>1, <3>2 DEF TypeOK
    <3>4. book'[a][k] = s
      BY <1>0, <2>1 DEF TypeOK
    <3>5. s # "absent"
      BY DEF ExchangeStatuses, LiveStatuses, FinalStatuses
    <3> QED
      BY <3>1, <3>2, <3>3, <3>4, <3>5
  <2>4. \A b \in Accounts, j \in Keys : <<b, j>> # <<a, k>> =>
            wire'[b][j] = wire[b][j] /\ book'[b][j] = book[b][j]
    BY <1>0, <1>2, <2>1 DEF AcceptOrder, TypeOK
  <2>5. ASSUME NEW b \in Accounts, NEW j \in Keys
        PROVE  SendOK(b, j)' /\ RowAgrees(b, j)'
    <3>1. SendOK(b, j) /\ RowAgrees(b, j)
      BY <1>0 DEF SendInv, FinalRowAgrees
    <3>2. CASE <<b, j>> = <<a, k>>
      BY <1>0, <2>3, <3>2 DEF SendOK, RowAgrees
    <3>3. CASE <<b, j>> # <<a, k>>
      BY <2>3, <2>4, <3>1, <3>3 DEF SendOK, RowAgrees
    <3> QED
      BY <3>2, <3>3
  <2>6. ASSUME NEW t \in Tasks
        PROVE  HandlerOK(t)'
    <3>1. HandlerOK(t)
      BY <1>0 DEF HandlerInv
    <3>2. CASE req[t].acct = a /\ req[t].key = k
      BY <1>0, <2>1, <2>2, <2>3, <3>1, <3>2, DeliverFacts DEF HandlerOK, Seen
    <3>3. CASE ~(req[t].acct = a /\ req[t].key = k)
      <4>1. <<req[t].acct, req[t].key>> # <<a, k>>
        BY <3>3
      <4>2. /\ wire'[req[t].acct][req[t].key] = wire[req[t].acct][req[t].key]
            /\ book'[req[t].acct][req[t].key] = book[req[t].acct][req[t].key]
        BY <1>1, <2>4, <4>1
      <4> QED
        BY <1>0, <2>1, <2>2, <2>3, <3>1, <3>3, <4>2, DeliverFacts DEF HandlerOK, Seen
    <3> QED
      BY <3>2, <3>3
  <2>7. LockDiscipline'
    BY <1>0, <2>1, <2>2, <2>3, DeliverFacts, LocksKept
  <2>8. StartupInv'
    <3>1. \A t \in Tasks : req'[t].pc = req[t].pc
      BY <1>0, <2>1, <2>2, DeliverFacts
    <3>2. rec.busy => Seen(rec.acct, rec.key, rec.found)'
      <4>1. rec.acct \in Accounts /\ rec.key \in Keys
        BY <1>0 DEF TypeOK
      <4>2. CASE <<rec.acct, rec.key>> = <<a, k>>
        BY <1>0, <2>3, <4>2 DEF StartupInv, Seen
      <4>3. CASE <<rec.acct, rec.key>> # <<a, k>>
        BY <1>0, <2>3, <2>4, <4>1, <4>3 DEF StartupInv, Seen
      <4> QED
        BY <4>2, <4>3
    <3> QED
      BY <1>0, <2>3, <3>1, <3>2 DEF StartupInv, At
  <2> QED
    BY <2>5, <2>6, <2>7, <2>8 DEF SafeInv, SendInv, FinalRowAgrees, HandlerInv
<1>3. CASE RefuseOrder(a, k) \/ LoseRequest(a, k)
  <2>1. /\ wire[a][k] = 1 /\ sent[a][k] = 1 /\ book[a][k] = "absent" /\ wire'[a][k] = 0
        /\ orders' = orders /\ locks' = locks /\ sent' = sent /\ book' = book
        /\ UNCHANGED startVars
        /\ \A b \in Accounts, j \in Keys : <<b, j>> # <<a, k>> => wire'[b][j] = wire[b][j]
    <3>1. /\ wire[a][k] > 0
          /\ wire' = [wire EXCEPT ![a][k] = @ - 1]
          /\ UNCHANGED <<orders, locks, sent, book, startVars>>
      BY <1>3 DEF RefuseOrder, LoseRequest
    <3>2. wire[a][k] = 1 /\ sent[a][k] = 1 /\ book[a][k] = "absent"
      BY <1>0, <3>1 DEF SendOK
    <3>3. /\ wire'[a][k] = 0
          /\ \A b \in Accounts, j \in Keys : <<b, j>> # <<a, k>> => wire'[b][j] = wire[b][j]
      BY <1>0, <3>1, <3>2 DEF TypeOK
    <3> QED
      BY <3>1, <3>2, <3>3
  <2>2. \A t \in Tasks :
             /\ req'[t].pc = req[t].pc /\ req'[t].acct = req[t].acct
             /\ req'[t].key = req[t].key /\ req'[t].found = req[t].found
             /\ \/ req'[t].reply = req[t].reply
                \/ /\ req[t].pc = "await" /\ req[t].acct = a /\ req[t].key = k
                   /\ req'[t].reply \in {"refused", "unauthorized"}
    <3>1. CASE LoseRequest(a, k)
      BY <3>1 DEF LoseRequest
    <3>2. CASE RefuseOrder(a, k)
      <4>1. PICK s \in {"refused", "unauthorized"} : Deliver(a, k, s)
        BY <3>2 DEF RefuseOrder
      <4>2. s \in Replies
        BY DEF Replies
      <4> QED
        BY <1>0, <4>1, <4>2, DeliverFacts
    <3> QED
      BY <1>3, <3>1, <3>2
  <2>3. ASSUME NEW b \in Accounts, NEW j \in Keys
        PROVE  SendOK(b, j)' /\ RowAgrees(b, j)'
    <3>1. SendOK(b, j) /\ RowAgrees(b, j)
      BY <1>0 DEF SendInv, FinalRowAgrees
    <3>2. CASE <<b, j>> = <<a, k>>
      BY <1>0, <2>1, <3>2 DEF SendOK, RowAgrees
    <3>3. CASE <<b, j>> # <<a, k>>
      BY <2>1, <3>1, <3>3 DEF SendOK, RowAgrees
    <3> QED
      BY <3>2, <3>3
  <2>4. ASSUME NEW t \in Tasks
        PROVE  HandlerOK(t)'
    <3>1. HandlerOK(t)
      BY <1>0 DEF HandlerInv
    <3>2. CASE req[t].acct = a /\ req[t].key = k
      BY <2>1, <2>2, <3>1, <3>2 DEF HandlerOK, Seen, FinalStatuses
    <3>3. CASE ~(req[t].acct = a /\ req[t].key = k)
      <4>1. <<req[t].acct, req[t].key>> # <<a, k>>
        BY <3>3
      <4>2. wire'[req[t].acct][req[t].key] = wire[req[t].acct][req[t].key]
        BY <1>1, <2>1, <4>1
      <4> QED
        BY <2>1, <2>2, <3>1, <3>3, <4>2 DEF HandlerOK, Seen
    <3> QED
      BY <3>2, <3>3
  <2>5. LockDiscipline'
    BY <2>1, <2>2, LocksKept
  <2>6. StartupInv'
    BY <1>0, <2>1, <2>2 DEF StartupInv, Seen, At
  <2> QED
    BY <2>3, <2>4, <2>5, <2>6 DEF SafeInv, SendInv, FinalRowAgrees, HandlerInv
<1>4. CASE OrderProgress(a, k)
  <2>1. PICK s \in ExchangeStatuses : book' = [book EXCEPT ![a][k] = s]
    BY <1>4 DEF OrderProgress
  <2>2. /\ book[a][k] \in LiveStatuses /\ book[a][k] # "absent"
        /\ book'[a][k] = s /\ s # "absent"
        /\ \A b \in Accounts, j \in Keys : <<b, j>> # <<a, k>> => book'[b][j] = book[b][j]
        /\ UNCHANGED <<orders, locks, req, startVars, wire, sent>>
    BY <1>0, <1>4, <2>1 DEF OrderProgress, TypeOK, LiveStatuses, ExchangeStatuses, FinalStatuses
  <2>3. \A x \in FinalStatuses : x # QueryStatus(k, book[a][k])
    BY <2>2, QueryStatusType DEF ExchangeStatuses
  <2>4. ASSUME NEW b \in Accounts, NEW j \in Keys
        PROVE  SendOK(b, j)' /\ RowAgrees(b, j)'
    <3>1. SendOK(b, j) /\ RowAgrees(b, j)
      BY <1>0 DEF SendInv, FinalRowAgrees
    <3>2. CASE <<b, j>> = <<a, k>>
      BY <1>0, <2>2, <2>3, <3>2 DEF SendOK, RowAgrees
    <3>3. CASE <<b, j>> # <<a, k>>
      BY <2>2, <3>1, <3>3 DEF SendOK, RowAgrees
    <3> QED
      BY <3>2, <3>3
  <2>5. ASSUME NEW b \in Accounts, NEW j \in Keys, NEW x, Seen(b, j, x)
        PROVE  Seen(b, j, x)'
    BY <2>2, <2>3, <2>5 DEF Seen
  <2>6. ASSUME NEW t \in Tasks
        PROVE  HandlerOK(t)'
    <3>1. HandlerOK(t)
      BY <1>0 DEF HandlerInv
    <3>2. req[t].reply = "refused" => book'[req[t].acct][req[t].key] = book[req[t].acct][req[t].key]
             \/ ~(req[t].pc = "await")
      BY <1>1, <2>2, <3>1 DEF HandlerOK
    <3> QED
      BY <1>1, <2>2, <2>5, <3>1, <3>2 DEF HandlerOK
  <2>7. LockDiscipline'
    BY <2>2, LocksKept
  <2>8. StartupInv'
    <3>1. rec.acct \in Accounts /\ rec.key \in Keys
      BY <1>0 DEF TypeOK
    <3> QED
      BY <1>0, <2>2, <2>5, <3>1 DEF StartupInv, At
  <2> QED
    BY <2>4, <2>6, <2>7, <2>8 DEF SafeInv, SendInv, FinalRowAgrees, HandlerInv
<1> QED
  BY <1>2, <1>3, <1>4
-----------------------------------------------------------------------------
(* Every step, and the theorems *)

\* Every step of the daemon, the operator, the network and the exchange, and a
\* stuttering step, keeps the inductive invariant.
LEMMA NextIInv == IInv /\ [Next]_vars => IInv'
<1> SUFFICES ASSUME IInv, [Next]_vars PROVE IInv'
  OBVIOUS
<1> USE DEF dbVars, daemonVars, startVars, netVars, exchVars, boundVars
<1>0. TypeOK /\ HandlerInv /\ StartupInv
  BY DEF IInv
<1>1. TypeOK'
  BY <1>0, NextTypeOK
<1>2. SafeInv'
  <2>1. CASE \E t \in Tasks, k \in Keys :
               \/ \E T \in SUBSET Accounts \ {{}} : ExecuteOnAccounts(t, k, T)
               \/ \E a \in Accounts : PlaceOrder(t, k, a)
    <3>1. PICK t \in Tasks, k \in Keys :
               \/ \E T \in SUBSET Accounts \ {{}} : ExecuteOnAccounts(t, k, T)
               \/ \E a \in Accounts : PlaceOrder(t, k, a)
      BY <2>1
    <3>2. /\ At(t, "idle") /\ phase = "serving"
          /\ UNCHANGED <<orders, locks, startVars, wire, sent, book>>
      BY <3>1 DEF ExecuteOnAccounts, PlaceOrder
    <3>3. \E new \in {q \in Request : q.pc = "wait" /\ q.reply = "none"} :
             req' = [req EXCEPT ![t] = new]
      <4>1. CASE \E a \in Accounts : PlaceOrder(t, k, a)
        <5>1. PICK a \in Accounts : PlaceOrder(t, k, a)
          BY <4>1
        <5> DEFINE new == [IdleRequest EXCEPT !.pc = "wait", !.kind = "direct", !.key = k,
                                              !.acct = a, !.todo = {a}]
        <5>2. new \in Request /\ new.pc = "wait" /\ new.reply = "none"
          BY IdleRequestType DEF Request, PCs, IdleRequest
        <5>3. req' = [req EXCEPT ![t] = new]
          BY <5>1 DEF PlaceOrder
        <5> QED
          BY <5>2, <5>3
      <4>2. CASE \E T \in SUBSET Accounts \ {{}} : ExecuteOnAccounts(t, k, T)
        <5>0. PICK T \in SUBSET Accounts \ {{}} : ExecuteOnAccounts(t, k, T)
          BY <4>2
        <5>1. PICK a \in T :
                 req' = [req EXCEPT ![t] = [IdleRequest EXCEPT
                    !.pc = "wait", !.kind = "sized", !.key = k, !.acct = a, !.todo = T,
                    !.real = [x \in Accounts |-> trading_lock[x] = "real"]]]
          BY <5>0 DEF ExecuteOnAccounts
        <5> DEFINE new == [IdleRequest EXCEPT
                    !.pc = "wait", !.kind = "sized", !.key = k, !.acct = a, !.todo = T,
                    !.real = [x \in Accounts |-> trading_lock[x] = "real"]]
        <5>2. [x \in Accounts |-> trading_lock[x] = "real"] \in [Accounts -> BOOLEAN]
          OBVIOUS
        <5>3. new \in Request /\ new.pc = "wait" /\ new.reply = "none"
          BY <5>2, IdleRequestType DEF Request, PCs, IdleRequest
        <5> QED
          BY <5>1, <5>3
      <4> QED
        BY <3>1, <4>1, <4>2
    <3>4. /\ \A u \in Tasks \ {t} : req'[u] = req[u]
          /\ req'[t].pc = "wait" /\ req'[t].reply = "none"
      BY <1>0, <3>3 DEF TypeOK
    <3> QED
      BY <3>2, <3>4, ArriveStep
  <2>2. CASE \E t \in Tasks : AcquireLock(t)
    BY <1>1, <2>2, AcquireSafe
  <2>3. CASE \E t \in Tasks : HandlerStep(t)
    BY <1>1, <2>3, HandlerSafe
  <2>4. CASE Crash \/ StartDaemon \/ ReconcileWrite \/ AbortReconcile \/ Serve
             \/ \E a \in Accounts, k \in Keys : ReconcileQuery(a, k)
    BY <1>1, <2>4, StartupSafe
  <2>5. CASE \E a \in Accounts, k \in Keys :
               \/ AcceptOrder(a, k) \/ RefuseOrder(a, k)
               \/ LoseRequest(a, k) \/ OrderProgress(a, k)
    BY <2>5, ExchangeSafe
  <2>6. CASE (\E a \in Accounts : FlipTradingLock(a)) \/ UNCHANGED vars
    BY <2>6 DEF FlipTradingLock, vars, IInv, SafeInv, LockDiscipline, Critical, SendInv,
                SendOK, HandlerInv, HandlerOK, Seen, StartupInv, At, FinalRowAgrees, RowAgrees
  <2> QED
    BY <2>1, <2>2, <2>3, <2>4, <2>5, <2>6 DEF Next
<1> QED
  BY <1>1, <1>2 DEF IInv, SafeInv

\* A fresh daemon with an empty database satisfies the inductive invariant.
LEMMA InitIInv == Init => IInv
<1> SUFFICES ASSUME Init PROVE IInv
  OBVIOUS
<1>1. TypeOK
  BY InitTypeOK
<1>2. \A t \in Tasks : req[t].pc = "idle" /\ req[t].reply = "none"
  BY DEF Init, IdleRequest
<1>3. LockDiscipline
  BY <1>2, TaskAssumption DEF Init, LockDiscipline, Critical
<1>4. SendInv /\ FinalRowAgrees
  BY DEF Init, SendInv, SendOK, FinalRowAgrees, RowAgrees, FinalStatuses
<1>5. HandlerInv
  BY <1>2 DEF HandlerInv, HandlerOK
<1>6. StartupInv
  BY DEF Init, StartupInv, NoOrder
<1> QED
  BY <1>1, <1>3, <1>4, <1>5, <1>6 DEF IInv

\* The inductive invariant holds in every reachable state, for any number of
\* accounts, keys, concurrent handlers, crashes and trading lock changes.
THEOREM Inductive == Spec => []IInv
<1>1. Init => IInv
  BY InitIInv
<1>2. IInv /\ [Next]_vars => IInv'
  BY NextIInv
<1> QED
  BY <1>1, <1>2, PTL DEF Spec

\* Every variable keeps its type; in particular only broker statuses, "paper"
\* and no row at all ever appear in the orders table.
THEOREM TypeCorrect == Spec => []TypeOK
<1>1. IInv => TypeOK
  BY DEF IInv
<1> QED
  BY <1>1, Inductive, PTL

\* An idempotency key is sent to the exchange at most once per account
\* (_place_and_record, _reconcile_after_timeout, _handle_existing).
THEOREM SentOnce == Spec => []NoBlindResubmission
<1>1. IInv => NoBlindResubmission
  BY DEF IInv, SendInv, SendOK, NoBlindResubmission
<1> QED
  BY <1>1, Inductive, PTL

\* A final row agrees with the exchange, whichever of the handlers, the timeout
\* reconcile or the startup reconcile wrote it.
THEOREM RowsTruthful == Spec => []FinalRowAgrees
<1>1. IInv => FinalRowAgrees
  BY DEF IInv
<1> QED
  BY <1>1, Inductive, PTL

\* An order that is live or may still arrive has an open row.
LEMMA TrackedByInv == IInv => LiveOrderTracked
<1> SUFFICES ASSUME IInv, NEW a \in Accounts, NEW k \in Keys,
                    wire[a][k] > 0 \/ book[a][k] \in LiveStatuses
             PROVE  orders[a][k] \in OpenStatuses
  BY DEF LiveOrderTracked
<1>1. SendOK(a, k) /\ RowAgrees(a, k) /\ TypeOK
  BY DEF IInv, SendInv, FinalRowAgrees
<1>2. orders[a][k] \in RowStatuses /\ wire[a][k] \in Nat /\ sent[a][k] \in Nat
  BY <1>1 DEF TypeOK
<1>3. sent[a][k] # 0
  BY <1>1, <1>2 DEF SendOK, LiveStatuses
<1>4. orders[a][k] \notin {"none", "paper"}
  BY <1>1, <1>3 DEF SendOK
<1>5. orders[a][k] \notin FinalStatuses
  <2> SUFFICES ASSUME orders[a][k] \in FinalStatuses PROVE FALSE
    OBVIOUS
  <2>1. /\ wire[a][k] = 0 /\ book[a][k] \in LiveStatuses
        /\ orders[a][k] = QueryStatus(k, book[a][k])
    BY <1>1 DEF RowAgrees, LiveStatuses
  <2>2. book[a][k] \in ExchangeStatuses
    BY <2>1 DEF ExchangeStatuses
  <2> QED
    BY <2>1, <2>2, QueryStatusType
<1> QED
  BY <1>2, <1>4, <1>5 DEF RowStatuses, ORDER_STATUSES

\* An order that is live on the exchange or still on its way there has an open
\* row: the exposure check and the startup reconcile never lose sight of it.
THEOREM LiveTracked == Spec => []LiveOrderTracked
<1> QED
  BY TrackedByInv, Inductive, PTL

\* A handler that found no row inserts it into a free key: the lock of the
\* account covers the time between _load_order and _insert_order.
THEOREM InsertFindsNoRow == Spec => []KeyFreeAtInsert
<1>1. IInv => KeyFreeAtInsert
  BY DEF IInv, HandlerInv, HandlerOK, KeyFreeAtInsert, At
<1> QED
  BY <1>1, Inductive, PTL

\* An account's lock is held by exactly the handler that works on it.
THEOREM LocksExclusive == Spec => []LockDiscipline
<1>1. IInv => LockDiscipline
  BY DEF IInv
<1> QED
  BY <1>1, Inductive, PTL

\* A row that says how its order ended, and a paper row, is never rewritten:
\* each of the five writers holds a row that is still open, or none at all.
THEOREM FinalRowsImmutable == Spec => FinalRowsStay
<1> DEFINE Kept == \A a \in Accounts, k \in Keys :
        orders[a][k] \in FinalStatuses \cup {"paper"} => orders'[a][k] = orders[a][k]
<1>1. IInv /\ [Next]_vars => [Kept]_orders
  <2> SUFFICES ASSUME IInv, [Next]_vars, orders' # orders PROVE Kept
    OBVIOUS
  <2> USE DEF dbVars, daemonVars, startVars, netVars, exchVars, boundVars
  <2>0. TypeOK /\ HandlerInv /\ StartupInv
    BY DEF IInv
  <2>1. ASSUME NEW b \in Accounts, NEW j \in Keys, NEW s, SetRow(b, j, s),
               orders[b][j] \in OpenStatuses \cup {"none"}
        PROVE  Kept
    BY <2>0, <2>1 DEF SetRow, TypeOK, OpenStatuses, FinalStatuses
  <2>2. CASE \E t \in Tasks : HandlerStep(t)
    <3>1. PICK t \in Tasks : HandlerStep(t)
      BY <2>2
    <3>2. HandlerOK(t) /\ req[t].acct \in Accounts /\ req[t].key \in Keys
      BY <2>0 DEF HandlerInv, TypeOK, Request
    <3>3. ApplyExisting(t) \/ InsertOrder(t) \/ ReceiveReply(t) \/ SettleTimeout(t)
      BY <3>1 DEF HandlerStep, LoadOrder, QueryExisting, Preflight, ReadExposure, EnforceCaps,
                  SendOrder, Timeout, QueryAfterTimeout
    <3>4. orders[req[t].acct][req[t].key] \in OpenStatuses \cup {"none"}
      BY <3>2, <3>3 DEF HandlerOK, ApplyExisting, InsertOrder, ReceiveReply, SettleTimeout,
                        At, OpenStatuses
    <3>5. \E s \in ORDER_STATUSES \cup Outcomes \cup Replies \cup {"paper"} :
             SetRow(req[t].acct, req[t].key, s)
      <4>1. req[t].found \in Outcomes /\ req[t].reply \in Replies
        BY <2>0 DEF TypeOK, Request
      <4>2. CASE ApplyExisting(t)
        BY <4>1, <4>2 DEF ApplyExisting
      <4>3. CASE InsertOrder(t)
        BY <4>3 DEF InsertOrder, ORDER_STATUSES, OpenStatuses
      <4>4. CASE ReceiveReply(t)
        <5>1. CASE req[t].reply = "refused"
          BY <4>4, <5>1 DEF ReceiveReply, ORDER_STATUSES, FinalStatuses
        <5>2. CASE req[t].reply = "unauthorized"
          BY <4>4, <5>2 DEF ReceiveReply, ORDER_STATUSES, OpenStatuses
        <5>3. CASE req[t].reply \notin {"refused", "unauthorized"}
          BY <4>1, <4>4, <5>3 DEF ReceiveReply
        <5> QED
          BY <5>1, <5>2, <5>3
      <4>5. CASE SettleTimeout(t)
        <5>1. CASE req[t].found \in {"error", "none"}
          BY <4>5, <5>1 DEF SettleTimeout, ORDER_STATUSES, OpenStatuses
        <5>2. CASE req[t].found \notin {"error", "none"}
          BY <4>1, <4>5, <5>2 DEF SettleTimeout
        <5> QED
          BY <5>1, <5>2
      <4> QED
        BY <3>3, <4>2, <4>3, <4>4, <4>5
    <3> QED
      BY <2>1, <3>2, <3>4, <3>5
  <2>3. CASE ReconcileWrite
    <3>1. /\ rec.acct \in Accounts /\ rec.key \in Keys
          /\ orders[rec.acct][rec.key] \in OpenStatuses
      BY <2>0, <2>3 DEF TypeOK, StartupInv, ReconcileWrite
    <3>2. CASE rec.found = "none"
      <4>1. SetRow(rec.acct, rec.key, "UNKNOWN")
        BY <2>3, <3>2 DEF ReconcileWrite
      <4> QED
        BY <2>1, <3>1, <4>1
    <3>3. CASE rec.found # "none"
      <4>1. SetRow(rec.acct, rec.key, rec.found)
        BY <2>3, <3>3 DEF ReconcileWrite
      <4> QED
        BY <2>1, <3>1, <4>1
    <3> QED
      BY <3>2, <3>3
  <2>4. (\E t \in Tasks : HandlerStep(t)) \/ ReconcileWrite
    BY DEF Next, vars, ExecuteOnAccounts, PlaceOrder, AcquireLock, Crash, StartDaemon, AbortReconcile, Serve,
           FlipTradingLock, ReconcileQuery, AcceptOrder, RefuseOrder, LoseRequest, OrderProgress
  <2> QED
    BY <2>2, <2>3, <2>4
<1> QED
  BY <1>1, Inductive, PTL DEF Spec, FinalRowsStay
-----------------------------------------------------------------------------
(* The exposure cap *)

\* What a row lets its order cost: everything while it is open, else what was filled.
ReservedOf(o, f) == [k \in Keys |-> IF o[k] \in OpenStatuses THEN Notional[k] ELSE f[k]]
LoadOf(o, f, c) == SumOver(ReservedOf(o, f), Keys \ c)

\* The load of an account: its orders that no override let through.
Load(a) == LoadOf(orders[a], filled[a], consumed[a])

\* Fills belong to orders the exchange has, and never exceed them.
FillInv == \A a \in Accounts, k \in Keys :
    /\ filled[a][k] <= Notional[k]
    /\ book[a][k] = "absent" => filled[a][k] = 0

\* The open notional a handler has read is still that of the database.
ExposureInv == \A t \in Tasks : At(t, "caps") => open_notional[t] = OpenNotional(req[t].acct)

\* The load of every account is within the cap ...
LoadInv == \A a \in Accounts : Load(a) <= Cap

\* ... and leaves room for the order that has passed the check and is not yet a row.
Room(t) ==
    At(t, "insert") /\ req[t].key \notin consumed[req[t].acct] =>
        Load(req[t].acct) + Notional[req[t].key] <= Cap
RoomInv == \A t \in Tasks : Room(t)

CInv == FillInv /\ ExposureInv /\ LoadInv /\ RoomInv

\* The open notional of an account is a sum over its open rows.
LEMMA OpenNotionalSum ==
    ASSUME NEW a \in Accounts
    PROVE  /\ OpenNotional(a) = SumOver(Notional, {k \in Keys : orders[a][k] \in OpenStatuses})
           /\ OpenNotional(a)' = SumOver(Notional, {k \in Keys : orders'[a][k] \in OpenStatuses})
<1>1. OpenNotional(a) = SumOver(Notional, {k \in Keys : orders[a][k] \in OpenStatuses})
  BY DEF OpenNotional, SumOver
<1>2. OpenNotional(a)' = SumOver(Notional, {k \in Keys : orders'[a][k] \in OpenStatuses})
  BY DEF OpenNotional, SumOver, MapThenSumSet, MapThenFoldSet
<1> QED
  BY <1>1, <1>2

\* A load is a sum of natural numbers over a finite set.
LEMMA LoadType ==
    ASSUME NEW o, NEW f \in [Keys -> Nat], NEW c
    PROVE  /\ IsFiniteSet(Keys \ c)
           /\ \A k \in Keys : ReservedOf(o, f)[k] \in Nat
           /\ LoadOf(o, f, c) \in Nat
<1>1. IsFiniteSet(Keys \ c)
  BY KeysAssumption, FS_Subset
<1>2. \A k \in Keys : ReservedOf(o, f)[k] \in Nat
  BY DEF ReservedOf
<1>3. \A k \in Keys \ c : ReservedOf(o, f)[k] \in Nat
  BY <1>2
<1>4. SumOver(ReservedOf(o, f), Keys \ c) \in Nat
  BY <1>1, <1>3, SumMonotonic
<1> QED
  BY <1>1, <1>2, <1>4 DEF LoadOf

\* Lower values and more overrides make a lower load.
LEMMA LoadLower ==
    ASSUME NEW o, NEW f \in [Keys -> Nat], NEW c, NEW p, NEW g \in [Keys -> Nat], NEW d,
           c \subseteq d, \A k \in Keys : ReservedOf(p, g)[k] <= ReservedOf(o, f)[k]
    PROVE  LoadOf(p, g, d) <= LoadOf(o, f, c)
<1> DEFINE q == ReservedOf(o, f)
           r == ReservedOf(p, g)
<1>1. /\ IsFiniteSet(Keys \ c) /\ IsFiniteSet(Keys \ d)
      /\ \A k \in Keys : q[k] \in Nat /\ r[k] \in Nat
      /\ LoadOf(o, f, c) \in Nat /\ LoadOf(p, g, d) \in Nat
  BY LoadType
<1>2. SumOver(r, Keys \ d) <= SumOver(q, Keys \ d)
  <2>1. \A k \in Keys \ d : r[k] \in Int /\ q[k] \in Int /\ r[k] <= q[k]
    BY <1>1
  <2> HIDE DEF q, r
  <2> QED BY <1>1, <2>1, SumPointwise
<1>3. SumOver(q, Keys \ d) <= SumOver(q, Keys \ c)
  <2>1. Keys \ d \in SUBSET (Keys \ c) /\ \A k \in Keys \ c : q[k] \in Nat
    BY <1>1
  <2> HIDE DEF q, r
  <2> QED BY <1>1, <2>1, SumMonotonic
<1>4. SumOver(q, Keys \ d) \in Nat
  BY LoadType DEF LoadOf
<1> QED
  BY <1>1, <1>2, <1>3, <1>4 DEF LoadOf

\* A new row raises the load by its notional at most.
LEMMA LoadInsert ==
    ASSUME NEW o \in [Keys -> RowStatuses], NEW f \in [Keys -> Nat], NEW c, NEW k \in Keys,
           o[k] \notin OpenStatuses, NEW s \in RowStatuses
    PROVE  /\ LoadOf([o EXCEPT ![k] = s], f, c) <= LoadOf(o, f, c) + Notional[k]
           /\ k \in c \/ s \notin OpenStatuses => LoadOf([o EXCEPT ![k] = s], f, c) = LoadOf(o, f, c)
<1> DEFINE q == ReservedOf(o, f)
           r == ReservedOf([o EXCEPT ![k] = s], f)
           S == Keys \ c
<1>1. /\ IsFiniteSet(S)
      /\ \A j \in Keys : q[j] \in Nat /\ r[j] \in Nat
      /\ LoadOf(o, f, c) \in Nat
      /\ LoadOf([o EXCEPT ![k] = s], f, c) \in Nat
  BY LoadType
<1>2. /\ \A j \in Keys \ {k} : r[j] = q[j]
      /\ r[k] <= q[k] + Notional[k]
      /\ s \notin OpenStatuses => r[k] = q[k]
  BY DEF ReservedOf
<1>3. LoadOf(o, f, c) = SumOver(q, S) /\ LoadOf([o EXCEPT ![k] = s], f, c) = SumOver(r, S)
  BY DEF LoadOf
<1>4. CASE k \in c \/ s \notin OpenStatuses
  <2>1. \A j \in S : q[j] \in Int /\ q[j] = r[j]
    <3>1. \A j \in S : j \in Keys /\ (j = k => s \notin OpenStatuses)
      BY <1>4
    <3> HIDE DEF q, r, S
    <3> QED BY <1>1, <1>2, <3>1
  <2>2. SumOver(q, S) = SumOver(r, S)
    <3> HIDE DEF q, r, S
    <3> QED BY <1>1, <2>1, SumEqual
  <2> QED
    BY <1>1, <1>3, <2>2
<1>5. CASE k \in S
  <2>1. \A j \in S : q[j] \in Int /\ r[j] \in Int
    <3>1. \A j \in S : j \in Keys
      OBVIOUS
    <3> HIDE DEF q, r, S
    <3> QED BY <1>1, <3>1
  <2>2. \A j \in S \ {k} : r[j] = q[j]
    BY <1>2
  <2>3. /\ SumOver(q, S) = q[k] + SumOver(q, S \ {k})
        /\ SumOver(r, S) = r[k] + SumOver(q, S \ {k})
    <3> HIDE DEF q, r, S
    <3> QED BY <1>1, <1>5, <2>1, <2>2, SumRemove
  <2>4. SumOver(q, S \ {k}) \in Int
    <3>1. IsFiniteSet(S \ {k}) /\ \A j \in S \ {k} : q[j] \in Int
      BY <1>1, <2>1, FS_RemoveElement
    <3> HIDE DEF q, r, S
    <3> QED BY <3>1, SumInt
  <2>5. q[k] \in Int /\ r[k] \in Int /\ Notional[k] \in Int
    <3> HIDE DEF q, r, S
    <3> QED BY <1>1
  <2>6. SumOver(r, S) <= SumOver(q, S) + Notional[k]
    <3> HIDE DEF q, r, S
    <3> QED BY <1>2, <2>3, <2>4, <2>5
  <2>7. s \notin OpenStatuses => SumOver(r, S) = SumOver(q, S)
    <3> HIDE DEF q, r, S
    <3> QED BY <1>2, <2>3
  <2> QED
    BY <1>3, <1>5, <2>6, <2>7
<1> QED
  BY <1>4, <1>5

\* What _current_exposure adds up, open orders in full and balances as they are, is no
\* less than the load: an order that fills between the two reads counts twice.
LEMMA ExposureCovers ==
    ASSUME NEW o, NEW f \in [Keys -> Nat], NEW c
    PROVE  LET open == SumOver(Notional, {k \in Keys : o[k] \in OpenStatuses})
               held == SumOver(f, Keys)
           IN  open \in Nat /\ held \in Nat /\ LoadOf(o, f, c) <= open + held
<1> DEFINE q == ReservedOf(o, f)
           O == {k \in Keys : o[k] \in OpenStatuses}
<1>1. IsFiniteSet(O) /\ IsFiniteSet(Keys \ O) /\ IsFiniteSet(Keys) /\ O \in SUBSET Keys
  BY KeysAssumption, FS_Subset
<1>2. /\ \A k \in Keys : q[k] \in Nat
      /\ \A k \in O : q[k] = Notional[k]
      /\ \A k \in Keys \ O : q[k] = f[k]
  BY LoadType DEF ReservedOf
<1>3. SumOver(q, Keys \ c) <= SumOver(q, Keys) /\ SumOver(q, Keys) \in Nat
  <2> HIDE DEF q, O
  <2> QED BY <1>1, <1>2, SumMonotonic
<1>4. SumOver(q, Keys) = SumOver(q, O) + SumOver(q, Keys \ O)
  <2>1. \A k \in Keys : q[k] \in Int
    BY <1>2
  <2> HIDE DEF q, O
  <2> QED BY <1>1, <2>1, SumSplit
<1>5. SumOver(q, O) = SumOver(Notional, O)
  <2>1. \A k \in O : q[k] \in Int
    BY <1>1, <1>2
  <2> HIDE DEF q, O
  <2> QED BY <1>1, <1>2, <2>1, SumEqual
<1>6. SumOver(q, Keys \ O) <= SumOver(f, Keys) /\ SumOver(f, Keys) \in Nat
  <2>1. \A k \in Keys : f[k] \in Nat
    OBVIOUS
  <2> HIDE DEF q, O
  <2> QED BY <1>1, <1>2, <2>1, SumMonotonic
<1>7. SumOver(Notional, O) \in Nat
  <2>1. \A k \in O : Notional[k] \in Nat
    OBVIOUS
  <2> HIDE DEF O
  <2> QED BY <1>1, <2>1, SumMonotonic
<1>8. SumOver(q, Keys \ O) \in Int
  <2>1. \A k \in Keys \ O : q[k] \in Int
    BY <1>2
  <2> HIDE DEF q, O
  <2> QED BY <1>1, <2>1, SumInt
<1>9. LoadOf(o, f, c) = SumOver(q, Keys \ c) /\ LoadOf(o, f, c) \in Nat
  BY LoadType DEF LoadOf
<1> HIDE DEF q, O
<1>10. LoadOf(o, f, c) <= SumOver(Notional, O) + SumOver(f, Keys)
  BY <1>3, <1>4, <1>5, <1>6, <1>7, <1>8, <1>9
<1> QED
  BY <1>6, <1>7, <1>10 DEF O

\* A step that writes no row and consumes no override: only orders with an open row
\* trade, and no handler passes or reads anything new.
LEMMA QuietStep ==
    ASSUME TypeOK, TypeOK', CInv, UNCHANGED <<orders, consumed>>, FillInv',
           \A a \in Accounts, k \in Keys :
               orders[a][k] \in OpenStatuses \/ filled'[a][k] = filled[a][k],
           \A u \in Tasks : req'[u].pc \in {"caps", "insert"} =>
               /\ req'[u].pc = req[u].pc /\ req'[u].acct = req[u].acct
               /\ req'[u].key = req[u].key /\ open_notional'[u] = open_notional[u]
    PROVE  CInv'
<1>1. ASSUME NEW a \in Accounts PROVE Load(a)' = Load(a)
  <2>1. ReservedOf(orders[a], filled'[a]) = ReservedOf(orders[a], filled[a])
    BY DEF ReservedOf
  <2> QED
    BY <2>1 DEF Load, LoadOf
<1>2. \A a \in Accounts : OpenNotional(a)' = OpenNotional(a)
  BY OpenNotionalSum
<1>3. \A u \in Tasks : req'[u].acct \in Accounts
  BY DEF TypeOK, Request
<1>4. ExposureInv'
  BY <1>2, <1>3 DEF CInv, ExposureInv, At
<1>5. LoadInv'
  BY <1>1 DEF CInv, LoadInv
<1>6. RoomInv'
  <2> SUFFICES ASSUME NEW u \in Tasks, At(u, "insert")',
                      req'[u].key \notin consumed'[req'[u].acct]
               PROVE  (Load(req[u].acct) + Notional[req[u].key] <= Cap)'
    BY DEF RoomInv, Room
  <2>1. /\ At(u, "insert") /\ req'[u].acct = req[u].acct /\ req'[u].key = req[u].key
    BY DEF At
  <2>2. Load(req[u].acct) + Notional[req[u].key] <= Cap
    BY <2>1 DEF CInv, RoomInv, Room
  <2>3. Load(req[u].acct)' = LoadOf(orders'[req'[u].acct], filled'[req'[u].acct], consumed'[req'[u].acct])
    BY DEF Load
  <2>4. Load(req[u].acct)' = Load(req[u].acct)
    <3>1. PICK a \in Accounts : a = req'[u].acct
      BY <1>3
    <3>2. /\ Load(a)' = LoadOf(orders'[a], filled'[a], consumed'[a])
          /\ Load(a) = LoadOf(orders[a], filled[a], consumed[a])
      BY DEF Load
    <3>3. Load(req[u].acct) = LoadOf(orders[a], filled[a], consumed[a])
      BY <2>1, <3>1 DEF Load
    <3> QED
      BY <1>1, <2>3, <3>1, <3>2, <3>3
  <2> QED
    BY <2>1, <2>2, <2>4
<1> QED
  BY <1>4, <1>5, <1>6 DEF CInv

\* A step that works on the rows and overrides of one account, in which no other
\* handler is between its reading of the exposure and its insert.
LEMMA AccountStep ==
    ASSUME TypeOK, TypeOK', CInv, NEW a \in Accounts, UNCHANGED <<book, filled>>,
           \A b \in Accounts \ {a} : orders'[b] = orders[b] /\ consumed'[b] = consumed[b],
           Load(a)' <= Cap,
           \A u \in Tasks : req'[u].pc \in {"caps", "insert"} =>
               \/ /\ req'[u] = req[u] /\ req[u].acct # a /\ open_notional'[u] = open_notional[u]
               \/ req'[u].pc = "insert" /\ Room(u)'
    PROVE  CInv'
<1>1. ASSUME NEW b \in Accounts \ {a} PROVE Load(b)' = Load(b) /\ OpenNotional(b)' = OpenNotional(b)
  BY OpenNotionalSum DEF Load
<1>2. \A u \in Tasks : req[u].acct \in Accounts
  BY DEF TypeOK, Request
<1>3. FillInv'
  BY DEF CInv, FillInv
<1>4. ExposureInv'
  <2> SUFFICES ASSUME NEW u \in Tasks, At(u, "caps")'
               PROVE  (open_notional[u] = OpenNotional(req[u].acct))'
    BY DEF ExposureInv
  <2>1. req'[u] = req[u] /\ req[u].acct # a /\ open_notional'[u] = open_notional[u] /\ At(u, "caps")
    BY DEF At
  <2>2. PICK b \in Accounts \ {a} : b = req[u].acct /\ b = req'[u].acct
    BY <1>2, <2>1
  <2>3. open_notional[u] = OpenNotional(b)
    BY <2>1, <2>2 DEF CInv, ExposureInv
  <2>4. OpenNotional(req[u].acct)' = OpenNotional(b)'
    BY <2>2 DEF OpenNotional
  <2> QED
    BY <1>1, <2>1, <2>3, <2>4
<1>5. LoadInv'
  BY <1>1 DEF CInv, LoadInv
<1>6. RoomInv'
  <2> SUFFICES ASSUME NEW u \in Tasks, At(u, "insert")' PROVE Room(u)'
    BY DEF RoomInv, Room
  <2>1. CASE req'[u] = req[u] /\ req[u].acct # a
    <3>1. PICK b \in Accounts \ {a} : b = req[u].acct /\ b = req'[u].acct
      BY <1>2, <2>1
    <3>2. Room(u) /\ At(u, "insert")
      BY <2>1 DEF CInv, RoomInv, At
    <3>3. req[u].key \notin consumed[b] => Load(b) + Notional[req[u].key] <= Cap
      BY <3>1, <3>2 DEF Room
    <3>4. Load(req[u].acct)' = Load(b)'
      BY <3>1 DEF Load
    <3> QED
      BY <1>1, <2>1, <3>1, <3>3, <3>4 DEF Room
  <2>2. CASE Room(u)'
    BY <2>2
  <2> QED
    BY <2>1, <2>2 DEF At
<1> QED
  BY <1>3, <1>4, <1>5, <1>6 DEF CInv

\* Writing an open row: its order costs no more than before.
LEMMA OpenRowLoad ==
    ASSUME TypeOK, TypeOK', CInv, NEW a \in Accounts, NEW k \in Keys, NEW s, SetRow(a, k, s),
           orders[a][k] \in OpenStatuses, UNCHANGED <<consumed, filled>>
    PROVE  Load(a)' <= Cap
<1>1. /\ orders'[a] \in [Keys -> RowStatuses] /\ orders[a] \in [Keys -> RowStatuses]
      /\ filled[a] \in [Keys -> Nat] /\ filled'[a] = filled[a] /\ consumed'[a] = consumed[a]
      /\ \A j \in Keys \ {k} : orders'[a][j] = orders[a][j]
  BY DEF TypeOK, SetRow
<1>2. filled[a][k] <= Notional[k]
  BY DEF CInv, FillInv
<1>3. \A j \in Keys : ReservedOf(orders'[a], filled[a])[j] <= ReservedOf(orders[a], filled[a])[j]
  <2> SUFFICES ASSUME NEW j \in Keys
               PROVE  ReservedOf(orders'[a], filled[a])[j] <= ReservedOf(orders[a], filled[a])[j]
    OBVIOUS
  <2>1. filled[a][j] \in Nat /\ Notional[j] \in Nat
    BY <1>1
  <2>2. CASE j = k
    BY <1>2, <2>1, <2>2 DEF ReservedOf
  <2>3. CASE j # k
    BY <1>1, <2>1, <2>3 DEF ReservedOf
  <2> QED
    BY <2>2, <2>3
<1>4. LoadOf(orders'[a], filled[a], consumed[a]) <= LoadOf(orders[a], filled[a], consumed[a])
  BY <1>1, <1>3, LoadLower
<1>5. Load(a) <= Cap /\ Load(a) = LoadOf(orders[a], filled[a], consumed[a])
  BY DEF CInv, LoadInv, Load
<1>6. Load(a)' = LoadOf(orders'[a], filled[a], consumed[a])
  BY <1>1 DEF Load
<1>7. LoadOf(orders'[a], filled[a], consumed[a]) \in Nat /\ LoadOf(orders[a], filled[a], consumed[a]) \in Nat
  BY <1>1, LoadType
<1> QED
  BY <1>4, <1>5, <1>6, <1>7

\* A handler that neither reads the exposure nor passes the check nor writes.
LEMMA QuietHandler ==
    ASSUME TypeOK, TypeOK', CInv, NEW t \in Tasks,
           UNCHANGED <<orders, consumed, filled, book, open_notional>>,
           \A u \in Tasks \ {t} : req'[u] = req[u], req'[t].pc \notin {"caps", "insert"}
    PROVE  CInv'
<1>1. FillInv'
  BY DEF CInv, FillInv
<1>2. \A u \in Tasks : req'[u].pc \in {"caps", "insert"} =>
               /\ req'[u].pc = req[u].pc /\ req'[u].acct = req[u].acct
               /\ req'[u].key = req[u].key /\ open_notional'[u] = open_notional[u]
  OBVIOUS
<1> QED
  BY <1>1, <1>2, QuietStep

\* A handler writes the row of its order, which is open, and leaves its block.
LEMMA RowHandler ==
    ASSUME IInv, TypeOK', CInv, NEW t \in Tasks, Critical(t), Finish(t), NEW s,
           SetRow(req[t].acct, req[t].key, s), orders[req[t].acct][req[t].key] \in OpenStatuses,
           UNCHANGED <<consumed, filled, book, open_notional>>
    PROVE  CInv'
<1>0. TypeOK
  BY DEF IInv
<1>1. /\ req[t].acct \in Accounts /\ req[t].key \in Keys
      /\ \A u \in Tasks \ {t} : Critical(u) => req[u].acct # req[t].acct
  BY CriticalFacts
<1>2. /\ \A u \in Tasks \ {t} : req'[u] = req[u]
      /\ req'[t].pc \in {"idle", "wait"}
  BY <1>0, FinishFacts
<1>3. \A b \in Accounts \ {req[t].acct} : orders'[b] = orders[b] /\ consumed'[b] = consumed[b]
  BY <1>0, <1>1, RowFrame
<1>4. PICK a \in Accounts : a = req[t].acct
  BY <1>1
<1>5. Load(a)' <= Cap
  BY <1>0, <1>1, <1>4, OpenRowLoad
<1>6. \A u \in Tasks : req'[u].pc \in {"caps", "insert"} =>
         req'[u] = req[u] /\ req[u].acct # a /\ open_notional'[u] = open_notional[u]
  BY <1>1, <1>2, <1>4 DEF Critical
<1> QED
  BY <1>0, <1>3, <1>4, <1>5, <1>6, AccountStep

\* Reading the open notional: it is the database's.
LEMMA ReadExposureCap ==
    ASSUME IInv, TypeOK', CInv, NEW t \in Tasks, ReadExposure(t)
    PROVE  CInv'
<1> USE DEF dbVars, startVars, netVars, exchVars, boundVars
<1>0. TypeOK
  BY DEF IInv
<1>1. /\ \A u \in Tasks \ {t} : req'[u] = req[u] /\ open_notional'[u] = open_notional[u]
      /\ req'[t].pc = "caps" /\ req'[t].acct = req[t].acct
      /\ open_notional'[t] = OpenNotional(req[t].acct)
      /\ UNCHANGED <<orders, consumed, filled, book>>
  <2>1. req[t] \in Request
    BY <1>0 DEF TypeOK
  <2>2. /\ \A u \in Tasks \ {t} : req'[u] = req[u]
        /\ req'[t] = [req[t] EXCEPT !.pc = "caps"]
    BY <1>0, GotoType DEF ReadExposure, PCs
  <2> QED
    BY <1>0, <2>1, <2>2 DEF ReadExposure, TypeOK, Request
<1>2. \A a \in Accounts : OpenNotional(a)' = OpenNotional(a) /\ Load(a)' = Load(a)
  BY <1>1, OpenNotionalSum DEF Load
<1>3. \A u \in Tasks : req[u].acct \in Accounts
  BY <1>0 DEF TypeOK, Request
<1>4. FillInv' /\ LoadInv'
  BY <1>1, <1>2 DEF CInv, FillInv, LoadInv
<1>5. ASSUME NEW u \in Tasks, At(u, "caps")'
      PROVE  (open_notional[u] = OpenNotional(req[u].acct))'
  <2>1. PICK a \in Accounts : a = req[u].acct
    BY <1>3
  <2>2. req'[u].acct = a
    BY <1>1, <2>1
  <2>3. OpenNotional(req[u].acct)' = OpenNotional(a)'
    BY <2>2 DEF OpenNotional
  <2>4. open_notional'[u] = OpenNotional(a)
    <3>1. CASE u = t
      BY <1>1, <2>1, <3>1
    <3>2. CASE u # t
      <4>1. open_notional[u] = OpenNotional(req[u].acct)
        BY <1>1, <1>5, <3>2 DEF CInv, ExposureInv, At
      <4> QED
        BY <1>1, <2>1, <3>2, <4>1
    <3> QED
      BY <3>1, <3>2
  <2> QED
    BY <1>2, <2>3, <2>4
<1>6. ASSUME NEW u \in Tasks PROVE Room(u)'
  <2>1. CASE u = t
    BY <1>1, <2>1 DEF Room, At
  <2>2. CASE u # t
    <3>1. Room(u) /\ req'[u] = req[u]
      BY <1>1, <2>2 DEF CInv, RoomInv
    <3>2. Load(req[u].acct)' = Load(req[u].acct)
      BY <1>1, <3>1 DEF Load
    <3> QED
      BY <1>1, <3>1, <3>2 DEF Room, At
  <2> QED
    BY <2>1, <2>2
<1> QED
  BY <1>4, <1>5, <1>6 DEF CInv, ExposureInv, RoomInv

\* The check of the caps: what passes without an override leaves the load and the new
\* order within the cap, although the balances are read after the open orders.
LEMMA EnforceCapsCap ==
    ASSUME IInv, TypeOK', CInv, NEW t \in Tasks, EnforceCaps(t)
    PROVE  CInv'
<1> USE DEF dbVars, startVars, netVars, exchVars, boundVars
<1>0. TypeOK /\ req[t] \in Request
  BY DEF IInv, TypeOK
<1>1. PICK a \in Accounts, k \in Keys : a = req[t].acct /\ k = req[t].key
  BY <1>0 DEF Request
<1>2. Critical(t) /\ \A u \in Tasks \ {t} : Critical(u) => req[u].acct # a
  <2>1. Critical(t)
    BY DEF EnforceCaps, At, Critical
  <2> QED
    BY <1>1, <2>1, CriticalFacts
<1>3. /\ UNCHANGED <<orders, filled, book>>
      /\ \A u \in Tasks \ {t} : open_notional'[u] = open_notional[u]
  BY <1>0 DEF EnforceCaps, TypeOK
<1>4. filled[a] \in [Keys -> Nat] /\ consumed[a] \in SUBSET Keys /\ Notional[k] \in Nat
  BY <1>0 DEF TypeOK
<1>5. /\ Load(a) = LoadOf(orders[a], filled[a], consumed[a])
      /\ Load(a)' = LoadOf(orders[a], filled[a], consumed'[a])
      /\ Load(a) \in Nat /\ Load(a)' \in Nat /\ Load(a) <= Cap
  <2>1. /\ Load(a) = LoadOf(orders[a], filled[a], consumed[a])
        /\ Load(a)' = LoadOf(orders[a], filled[a], consumed'[a])
    BY <1>3 DEF Load
  <2>2. /\ LoadOf(orders[a], filled[a], consumed[a]) \in Nat
        /\ LoadOf(orders[a], filled[a], consumed'[a]) \in Nat
    BY <1>4, LoadType
  <2>3. Load(a) <= Cap
    BY DEF CInv, LoadInv
  <2> QED
    BY <2>1, <2>2, <2>3
<1>6. ASSUME \A u \in Tasks \ {t} : req'[u] = req[u],
             \A b \in Accounts \ {a} : consumed'[b] = consumed[b],
             consumed[a] \subseteq consumed'[a],
             req'[t].pc # "caps", req'[t].pc = "insert" => Room(t)'
      PROVE  CInv'
  <2>1. Load(a)' <= Cap
    <3>1. \A j \in Keys : ReservedOf(orders[a], filled[a])[j] <= ReservedOf(orders[a], filled[a])[j]
      <4>1. \A j \in Keys : ReservedOf(orders[a], filled[a])[j] \in Nat
        BY <1>4, LoadType
      <4> QED
        BY <4>1
    <3>2. LoadOf(orders[a], filled[a], consumed'[a]) <= LoadOf(orders[a], filled[a], consumed[a])
      BY <1>4, <1>6, <3>1, LoadLower
    <3> QED
      BY <1>5, <3>2
  <2>2. \A u \in Tasks : req'[u].pc \in {"caps", "insert"} =>
               \/ /\ req'[u] = req[u] /\ req[u].acct # a /\ open_notional'[u] = open_notional[u]
               \/ req'[u].pc = "insert" /\ Room(u)'
    BY <1>2, <1>3, <1>6 DEF Critical
  <2> QED
    BY <1>0, <1>3, <1>6, <2>1, <2>2, AccountStep
<1>7. CASE /\ open_notional[t] + HeldValue(a) + Notional[k] <= Cap
           /\ Goto(t, "insert") /\ UNCHANGED <<override, consumed>>
  <2>1. /\ \A u \in Tasks \ {t} : req'[u] = req[u]
        /\ req'[t] = [req[t] EXCEPT !.pc = "insert"]
    BY <1>0, <1>7, GotoType DEF PCs
  <2>2. req'[t].pc = "insert" /\ req'[t].acct = a /\ req'[t].key = k
    BY <1>0, <1>1, <2>1 DEF Request
  <2>3. open_notional[t] = SumOver(Notional, {j \in Keys : orders[a][j] \in OpenStatuses})
    BY <1>1, OpenNotionalSum DEF EnforceCaps, CInv, ExposureInv
  <2>4. HeldValue(a) = SumOver(filled[a], Keys)
    BY DEF HeldValue, SumOver
  <2>5. Load(a) + Notional[k] <= Cap
    <3>1. /\ open_notional[t] \in Nat /\ HeldValue(a) \in Nat
          /\ Load(a) <= open_notional[t] + HeldValue(a)
      <4> DEFINE open == SumOver(Notional, {j \in Keys : orders[a][j] \in OpenStatuses})
                 held == SumOver(filled[a], Keys)
      <4>1. open \in Nat /\ held \in Nat /\ LoadOf(orders[a], filled[a], consumed[a]) <= open + held
        BY <1>4, ExposureCovers
      <4> QED
        BY <1>5, <2>3, <2>4, <4>1
    <3> QED
      BY <1>4, <1>5, <1>7, <3>1
  <2>6. Room(t)'
    <3>1. Load(req[t].acct)' = LoadOf(orders'[req'[t].acct], filled'[req'[t].acct], consumed'[req'[t].acct])
      BY DEF Load
    <3>2. Load(req[t].acct)' = Load(a)
      BY <1>3, <1>5, <1>7, <2>2, <3>1
    <3> QED
      BY <2>2, <2>5, <3>2 DEF Room
  <2> QED
    BY <1>6, <1>7, <2>1, <2>2, <2>6
<1>8. CASE /\ consumed' = [consumed EXCEPT ![a] = @ \cup {k}]
           /\ Goto(t, "insert")
  <2>1. /\ \A u \in Tasks \ {t} : req'[u] = req[u]
        /\ req'[t] = [req[t] EXCEPT !.pc = "insert"]
    BY <1>0, <1>8, GotoType DEF PCs
  <2>2. req'[t].pc = "insert" /\ req'[t].acct = a /\ req'[t].key = k
    BY <1>0, <1>1, <2>1 DEF Request
  <2>3. consumed'[a] = consumed[a] \cup {k} /\ \A b \in Accounts \ {a} : consumed'[b] = consumed[b]
    BY <1>0, <1>8 DEF TypeOK
  <2>4. Room(t)'
    BY <2>2, <2>3 DEF Room
  <2> QED
    BY <1>6, <2>1, <2>2, <2>3, <2>4
<1>9. CASE Finish(t) /\ UNCHANGED <<override, consumed>>
  BY <1>0, <1>6, <1>9, FinishFacts
<1> QED
  BY <1>1, <1>7, <1>8, <1>9 DEF EnforceCaps

\* The insert of the row uses the room the check has found.
LEMMA InsertCap ==
    ASSUME IInv, TypeOK', CInv, NEW t \in Tasks, InsertOrder(t)
    PROVE  CInv'
<1> USE DEF dbVars, startVars, netVars, exchVars, boundVars
<1>0. TypeOK /\ req[t] \in Request
  BY DEF IInv, TypeOK
<1>1. PICK a \in Accounts, k \in Keys : a = req[t].acct /\ k = req[t].key
  BY <1>0 DEF Request
<1>2. \A u \in Tasks \ {t} : Critical(u) => req[u].acct # a
  <2>1. Critical(t)
    BY DEF InsertOrder, At, Critical
  <2> QED
    BY <1>1, <2>1, CriticalFacts
<1>3. /\ UNCHANGED <<consumed, filled, book, open_notional>>
      /\ orders[a][k] = "none" /\ At(t, "insert")
  BY <1>1 DEF InsertOrder
<1>4. /\ orders[a] \in [Keys -> RowStatuses] /\ filled[a] \in [Keys -> Nat]
      /\ orders[a][k] \notin OpenStatuses /\ Notional[k] \in Nat
  BY <1>0, <1>3 DEF TypeOK, OpenStatuses
<1>5. PICK s \in {"NEW", "paper"} :
        /\ SetRow(a, k, s)
        /\ \A u \in Tasks \ {t} : req'[u] = req[u]
        /\ req'[t].pc \notin {"caps", "insert"}
  <2>1. CASE SetRow(a, k, "NEW") /\ Goto(t, "send")
    <3>1. /\ \A u \in Tasks \ {t} : req'[u] = req[u]
          /\ req'[t] = [req[t] EXCEPT !.pc = "send"]
      BY <1>0, <2>1, GotoType DEF PCs
    <3>2. req'[t].pc = "send"
      BY <1>0, <3>1 DEF Request
    <3> QED
      BY <2>1, <3>1, <3>2
  <2>2. CASE SetRow(a, k, "paper") /\ Finish(t)
    BY <1>0, <2>2, FinishFacts
  <2> QED
    BY <1>1, <2>1, <2>2 DEF InsertOrder
<1>6. s \in RowStatuses
  BY DEF RowStatuses, ORDER_STATUSES, OpenStatuses
<1>7. orders'[a] = [orders[a] EXCEPT ![k] = s] /\ \A b \in Accounts \ {a} : orders'[b] = orders[b]
  BY <1>0, <1>5 DEF SetRow, TypeOK
<1>8. Load(a)' <= Cap
  <2>1. Load(a)' = LoadOf([orders[a] EXCEPT ![k] = s], filled[a], consumed[a])
    BY <1>3, <1>7 DEF Load
  <2>2. Load(a) = LoadOf(orders[a], filled[a], consumed[a]) /\ Load(a) <= Cap
    BY DEF Load, CInv, LoadInv
  <2> DEFINE new == [orders[a] EXCEPT ![k] = s]
  <2>3. Load(a) \in Nat /\ Load(a)' \in Nat
    <3>1. LoadOf(new, filled[a], consumed[a]) \in Nat /\ LoadOf(orders[a], filled[a], consumed[a]) \in Nat
      <4> HIDE DEF new
      <4> QED BY <1>4, LoadType
    <3> QED
      BY <2>1, <2>2, <3>1
  <2>4. CASE k \in consumed[a]
    BY <1>4, <1>6, <2>1, <2>2, <2>4, LoadInsert
  <2>5. CASE k \notin consumed[a]
    <3>1. Load(a) + Notional[k] <= Cap
      BY <1>1, <1>3, <2>5 DEF CInv, RoomInv, Room
    <3>2. Load(a)' <= Load(a) + Notional[k]
      <4>1. LoadOf(new, filled[a], consumed[a]) <= LoadOf(orders[a], filled[a], consumed[a]) + Notional[k]
        BY <1>4, <1>6, LoadInsert
      <4> QED
        BY <2>1, <2>2, <4>1
    <3> QED
      BY <1>4, <2>3, <3>1, <3>2
  <2> QED
    BY <2>4, <2>5
<1>9. \A u \in Tasks : req'[u].pc \in {"caps", "insert"} =>
         req'[u] = req[u] /\ req[u].acct # a /\ open_notional'[u] = open_notional[u]
  BY <1>2, <1>3, <1>5 DEF Critical
<1>10. /\ UNCHANGED <<book, filled>>
       /\ \A b \in Accounts \ {a} : orders'[b] = orders[b] /\ consumed'[b] = consumed[b]
  BY <1>3, <1>7
<1> QED
  BY <1>0, <1>8, <1>9, <1>10, AccountStep

\* Moving on changes nothing but the await at which the handler stands.
LEMMA GotoFacts ==
    ASSUME TypeOK, NEW t \in Tasks, NEW l \in PCs, Goto(t, l)
    PROVE  /\ \A u \in Tasks \ {t} : req'[u] = req[u]
           /\ req'[t].pc = l /\ req'[t].acct = req[t].acct /\ req'[t].key = req[t].key
<1>1. req[t] \in Request
  BY DEF TypeOK
<1>2. /\ \A u \in Tasks \ {t} : req'[u] = req[u]
      /\ req'[t] = [req[t] EXCEPT !.pc = l]
  BY GotoType
<1> QED
  BY <1>1, <1>2 DEF Request

\* Every step of a request handler keeps the cap.
LEMMA HandlerCap ==
    ASSUME IInv, TypeOK', CInv, NEW t \in Tasks, HandlerStep(t)
    PROVE  CInv'
<1> USE DEF dbVars, startVars, netVars, exchVars, boundVars
<1>0. TypeOK /\ HandlerOK(t) /\ req[t] \in Request
  BY DEF IInv, HandlerInv, TypeOK
<1>1. CASE LoadOrder(t)
  <2>1. /\ \A u \in Tasks \ {t} : req'[u] = req[u]
        /\ req'[t].pc \notin {"caps", "insert"}
    BY <1>0, <1>1, FinishFacts, GotoFacts DEF LoadOrder, PCs
  <2> QED
    BY <1>0, <1>1, <2>1, QuietHandler DEF LoadOrder
<1>2. CASE QueryExisting(t)
  <2>1. PICK out \in QueryOutcomes(req[t].acct, req[t].key) :
            IF out \in {"error", "none"}
              THEN Finish(t)
              ELSE /\ req' = [req EXCEPT ![t].pc = "apply", ![t].found = out]
                   /\ UNCHANGED locks
    BY <1>2 DEF QueryExisting
  <2>2. /\ \A u \in Tasks \ {t} : req'[u] = req[u]
        /\ req'[t].pc \notin {"caps", "insert"}
    <3>1. CASE out \in {"error", "none"}
      BY <1>0, <2>1, <3>1, FinishFacts
    <3>2. CASE out \notin {"error", "none"}
      BY <1>0, <2>1, <3>2 DEF TypeOK, Request
    <3> QED
      BY <3>1, <3>2
  <2> QED
    BY <1>0, <1>2, <2>2, QuietHandler DEF QueryExisting
<1>3. CASE ApplyExisting(t)
  <2>1. Critical(t) /\ orders[req[t].acct][req[t].key] \in OpenStatuses
    BY <1>0, <1>3 DEF ApplyExisting, HandlerOK, At, Critical
  <2> QED
    BY <1>3, <2>1, RowHandler DEF ApplyExisting
<1>4. CASE Preflight(t)
  <2>1. /\ \A u \in Tasks \ {t} : req'[u] = req[u]
        /\ req'[t].pc \notin {"caps", "insert"}
    BY <1>0, <1>4, FinishFacts, GotoFacts DEF Preflight, PCs
  <2> QED
    BY <1>0, <1>4, <2>1, QuietHandler DEF Preflight
<1>5. CASE ReadExposure(t)
  BY <1>5, ReadExposureCap
<1>6. CASE EnforceCaps(t)
  BY <1>6, EnforceCapsCap
<1>7. CASE InsertOrder(t)
  BY <1>7, InsertCap
<1>8. CASE SendOrder(t)
  <2>1. /\ \A u \in Tasks \ {t} : req'[u] = req[u]
        /\ req'[t].pc \notin {"caps", "insert"}
    BY <1>0, <1>8, GotoFacts DEF SendOrder, PCs
  <2> QED
    BY <1>0, <1>8, <2>1, QuietHandler DEF SendOrder
<1>9. CASE ReceiveReply(t)
  <2>1. Critical(t) /\ orders[req[t].acct][req[t].key] \in OpenStatuses
    BY <1>0, <1>9 DEF ReceiveReply, HandlerOK, At, Critical, OpenStatuses
  <2>2. PICK s : /\ s = CASE req[t].reply = "refused"      -> "REJECTED"
                         [] req[t].reply = "unauthorized" -> "UNKNOWN"
                         [] OTHER                         -> req[t].reply
                 /\ SetRow(req[t].acct, req[t].key, s)
    BY <1>9 DEF ReceiveReply
  <2>3. Finish(t) /\ UNCHANGED <<consumed, filled, book, open_notional>>
    BY <1>9 DEF ReceiveReply
  <2> QED
    BY <2>1, <2>2, <2>3, RowHandler
<1>10. CASE Timeout(t)
  <2>1. /\ \A u \in Tasks \ {t} : req'[u] = req[u]
        /\ req'[t].pc \notin {"caps", "insert"}
    BY <1>0, <1>10 DEF Timeout, TypeOK, Request
  <2> QED
    BY <1>0, <1>10, <2>1, QuietHandler DEF Timeout
<1>11. CASE QueryAfterTimeout(t)
  <2>1. PICK out \in QueryOutcomes(req[t].acct, req[t].key) :
            req' = [req EXCEPT ![t].pc = "settle", ![t].found = out]
    BY <1>11 DEF QueryAfterTimeout
  <2>2. /\ \A u \in Tasks \ {t} : req'[u] = req[u]
        /\ req'[t].pc \notin {"caps", "insert"}
    BY <1>0, <2>1 DEF TypeOK, Request
  <2> QED
    BY <1>0, <1>11, <2>2, QuietHandler DEF QueryAfterTimeout
<1>12. CASE SettleTimeout(t)
  <2>1. Critical(t) /\ orders[req[t].acct][req[t].key] \in OpenStatuses
    BY <1>0, <1>12 DEF SettleTimeout, HandlerOK, At, Critical, OpenStatuses
  <2>2. PICK s : /\ s = IF req[t].found \in {"error", "none"} THEN "UNKNOWN" ELSE req[t].found
                 /\ SetRow(req[t].acct, req[t].key, s)
    BY <1>12 DEF SettleTimeout
  <2>3. Finish(t) /\ UNCHANGED <<consumed, filled, book, open_notional>>
    BY <1>12 DEF SettleTimeout
  <2> QED
    BY <2>1, <2>2, <2>3, RowHandler
<1> QED
  BY <1>1, <1>2, <1>3, <1>4, <1>5, <1>6, <1>7, <1>8, <1>9, <1>10, <1>11, <1>12
     DEF HandlerStep

\* What the exchange does: it fills only orders whose row is open.
LEMMA ExchangeCap ==
    ASSUME IInv, TypeOK', CInv, NEW a \in Accounts, NEW k \in Keys,
           AcceptOrder(a, k) \/ RefuseOrder(a, k) \/ LoseRequest(a, k) \/ OrderProgress(a, k)
    PROVE  CInv'
<1> USE DEF dbVars, daemonVars, startVars, netVars, exchVars, boundVars
<1>0. TypeOK /\ LiveOrderTracked
  BY TrackedByInv DEF IInv
<1>1. /\ UNCHANGED <<orders, consumed, open_notional>>
      /\ \A u \in Tasks : /\ req'[u].pc = req[u].pc /\ req'[u].acct = req[u].acct
                          /\ req'[u].key = req[u].key
  <2>1. UNCHANGED <<orders, consumed, open_notional>>
    BY DEF AcceptOrder, RefuseOrder, LoseRequest, OrderProgress
  <2>2. UNCHANGED req \/ \E s \in Replies : Deliver(a, k, s)
    <3>1. CASE AcceptOrder(a, k)
      <4>1. PICK s \in ExchangeStatuses : Deliver(a, k, PlaceStatus(k, s))
        BY <3>1 DEF AcceptOrder
      <4>2. PlaceStatus(k, s) \in Replies
        BY QueryStatusType DEF Replies
      <4> QED
        BY <4>1, <4>2
    <3>2. CASE RefuseOrder(a, k)
      BY <3>2 DEF RefuseOrder, Replies
    <3>3. CASE LoseRequest(a, k) \/ OrderProgress(a, k)
      BY <3>3 DEF LoseRequest, OrderProgress
    <3> QED
      BY <3>1, <3>2, <3>3
  <2> QED
    BY <1>0, <2>1, <2>2, DeliverFacts
<1>2. /\ \A b \in Accounts, j \in Keys : orders[b][j] \in OpenStatuses \/ filled'[b][j] = filled[b][j]
      /\ FillInv'
  <2>1. CASE AcceptOrder(a, k) \/ OrderProgress(a, k)
    <3>1. PICK s \in ExchangeStatuses, q \in 0 .. Notional[k] :
             /\ book' = [book EXCEPT ![a][k] = s]
             /\ filled' = [filled EXCEPT ![a][k] = q]
      <4>1. CASE AcceptOrder(a, k)
        BY <4>1 DEF AcceptOrder
      <4>2. CASE OrderProgress(a, k)
        <5>1. PICK s \in ExchangeStatuses, q \in filled[a][k] .. Notional[k] :
                 /\ book' = [book EXCEPT ![a][k] = s]
                 /\ filled' = [filled EXCEPT ![a][k] = q]
          BY <4>2 DEF OrderProgress
        <5>2. q \in 0 .. Notional[k]
          <6>1. filled[a][k] \in Nat /\ Notional[k] \in Nat
            BY <1>0 DEF TypeOK
          <6> QED
            BY <6>1
        <5> QED
          BY <5>1, <5>2
      <4> QED
        BY <2>1, <4>1, <4>2
    <3>2. orders[a][k] \in OpenStatuses
      BY <1>0, <2>1 DEF LiveOrderTracked, AcceptOrder, OrderProgress
    <3>3. /\ book'[a][k] = s /\ filled'[a][k] = q /\ q <= Notional[k] /\ s # "absent"
          /\ \A b \in Accounts, j \in Keys : <<b, j>> # <<a, k>> =>
                book'[b][j] = book[b][j] /\ filled'[b][j] = filled[b][j]
      BY <1>0, <3>1 DEF TypeOK, ExchangeStatuses, LiveStatuses, FinalStatuses
    <3>4. ASSUME NEW b \in Accounts, NEW j \in Keys
          PROVE  /\ orders[b][j] \in OpenStatuses \/ filled'[b][j] = filled[b][j]
                 /\ filled'[b][j] <= Notional[j]
                 /\ book'[b][j] = "absent" => filled'[b][j] = 0
      <4>1. CASE <<b, j>> = <<a, k>>
        BY <3>2, <3>3, <4>1
      <4>2. CASE <<b, j>> # <<a, k>>
        BY <3>3, <4>2 DEF CInv, FillInv
      <4> QED
        BY <4>1, <4>2
    <3> QED
      BY <3>4 DEF FillInv
  <2>2. CASE RefuseOrder(a, k) \/ LoseRequest(a, k)
    BY <2>2 DEF RefuseOrder, LoseRequest, CInv, FillInv
  <2> QED
    BY <2>1, <2>2
<1>3. \A u \in Tasks : req'[u].pc \in {"caps", "insert"} =>
         /\ req'[u].pc = req[u].pc /\ req'[u].acct = req[u].acct
         /\ req'[u].key = req[u].key /\ open_notional'[u] = open_notional[u]
  BY <1>1
<1> QED
  BY <1>0, <1>1, <1>2, <1>3, QuietStep

\* Arrival, lock, startup, crash and the operator: only the startup reconcile writes a
\* row, an open one, and no handler is at work then.
LEMMA DaemonCap ==
    ASSUME IInv, TypeOK', CInv,
           \/ \E t \in Tasks, k \in Keys :
                \/ \E T \in SUBSET Accounts \ {{}} : ExecuteOnAccounts(t, k, T)
                \/ \E a \in Accounts : PlaceOrder(t, k, a)
           \/ \E t \in Tasks : AcquireLock(t)
           \/ Crash \/ StartDaemon \/ ReconcileWrite \/ AbortReconcile \/ Serve
           \/ \E a \in Accounts, k \in Keys : ReconcileQuery(a, k)
           \/ (\E a \in Accounts : FlipTradingLock(a)) \/ UNCHANGED vars
    PROVE  CInv'
<1> USE DEF dbVars, daemonVars, startVars, netVars, exchVars, boundVars
<1>0. TypeOK /\ StartupInv
  BY DEF IInv
<1>1. ASSUME UNCHANGED <<orders, consumed, filled, book>>,
             \A u \in Tasks : \/ req'[u].pc \notin {"caps", "insert"}
                              \/ req'[u] = req[u] /\ open_notional'[u] = open_notional[u]
      PROVE  CInv'
  <2>1. FillInv'
    BY <1>1 DEF CInv, FillInv
  <2> QED
    BY <1>0, <1>1, <2>1, QuietStep
<1>2. CASE \E t \in Tasks, k \in Keys :
             \/ \E T \in SUBSET Accounts \ {{}} : ExecuteOnAccounts(t, k, T)
             \/ \E a \in Accounts : PlaceOrder(t, k, a)
  <2>1. PICK t \in Tasks, k \in Keys :
             \/ \E T \in SUBSET Accounts \ {{}} : ExecuteOnAccounts(t, k, T)
             \/ \E a \in Accounts : PlaceOrder(t, k, a)
    BY <1>2
  <2>2. UNCHANGED <<orders, consumed, filled, book, open_notional>>
    BY <2>1 DEF ExecuteOnAccounts, PlaceOrder
  <2>3. (\A u \in Tasks \ {t} : req'[u] = req[u]) /\ req'[t].pc = "wait"
    <3>1. CASE \E a \in Accounts : PlaceOrder(t, k, a)
      <4>1. PICK a \in Accounts : PlaceOrder(t, k, a)
        BY <3>1
      <4>2. req' = [req EXCEPT ![t] = [IdleRequest EXCEPT
                  !.pc = "wait", !.kind = "direct", !.key = k, !.acct = a, !.todo = {a}]]
        BY <4>1 DEF PlaceOrder
      <4> QED
        BY <1>0, <4>2, IdleRequestType DEF TypeOK, Request
    <3>2. CASE \E T \in SUBSET Accounts \ {{}} : ExecuteOnAccounts(t, k, T)
      <4>1. PICK T \in SUBSET Accounts \ {{}} : ExecuteOnAccounts(t, k, T)
        BY <3>2
      <4>2. PICK a \in T :
               req' = [req EXCEPT ![t] = [IdleRequest EXCEPT
                  !.pc = "wait", !.kind = "sized", !.key = k, !.acct = a, !.todo = T,
                  !.real = [x \in Accounts |-> trading_lock[x] = "real"]]]
        BY <4>1 DEF ExecuteOnAccounts
      <4> QED
        BY <1>0, <4>2, IdleRequestType DEF TypeOK, Request
    <3> QED
      BY <2>1, <3>1, <3>2
  <2> QED
    BY <1>1, <2>2, <2>3
<1>3. CASE \E t \in Tasks : AcquireLock(t)
  <2>1. PICK t \in Tasks : AcquireLock(t)
    BY <1>3
  <2>2. (\A u \in Tasks \ {t} : req'[u] = req[u]) /\ req'[t].pc = "load"
    BY <1>0, <2>1 DEF AcquireLock, TypeOK, Request
  <2> QED
    BY <1>1, <2>1, <2>2 DEF AcquireLock
<1>4. CASE Crash
  BY <1>1, <1>4 DEF Crash, IdleRequest
<1>5. CASE StartDaemon \/ AbortReconcile \/ Serve \/ (\E a \in Accounts, k \in Keys : ReconcileQuery(a, k))
           \/ (\E a \in Accounts : FlipTradingLock(a)) \/ UNCHANGED vars
  BY <1>1, <1>5 DEF StartDaemon, AbortReconcile, Serve, ReconcileQuery, FlipTradingLock, vars
<1>6. CASE ReconcileWrite
  <2>1. PICK a \in Accounts, k \in Keys : a = rec.acct /\ k = rec.key
    BY <1>0 DEF TypeOK
  <2>2. /\ orders[a][k] \in OpenStatuses
        /\ \A u \in Tasks : req[u].pc = "idle"
    BY <1>0, <1>6, <2>1 DEF ReconcileWrite, StartupInv, At
  <2>3. PICK s : s = (IF rec.found = "none" THEN "UNKNOWN" ELSE rec.found) /\ SetRow(a, k, s)
    BY <1>6, <2>1 DEF ReconcileWrite
  <2>4. UNCHANGED <<consumed, filled, book, req>>
    BY <1>6 DEF ReconcileWrite
  <2>5. Load(a)' <= Cap
    BY <1>0, <2>2, <2>3, <2>4, OpenRowLoad
  <2>6. \A b \in Accounts \ {a} : orders'[b] = orders[b] /\ consumed'[b] = consumed[b]
    BY <1>0, <2>3, <2>4, RowFrame
  <2> QED
    BY <1>0, <2>2, <2>4, <2>5, <2>6, AccountStep
<1> QED
  BY <1>2, <1>3, <1>4, <1>5, <1>6

\* A fresh database has no load.
LEMMA InitCap == Init => CInv
<1> SUFFICES ASSUME Init PROVE CInv
  OBVIOUS
<1>1. TypeOK /\ \A t \in Tasks : req[t].pc = "idle"
  BY InitTypeOK DEF Init, IdleRequest
<1>2. FillInv
  BY DEF Init, FillInv
<1>3. ExposureInv /\ RoomInv
  BY <1>1 DEF ExposureInv, RoomInv, Room, At
<1>4. ASSUME NEW a \in Accounts PROVE Load(a) <= Cap
  <2> DEFINE q == ReservedOf(orders[a], filled[a])
  <2>1. \A k \in Keys : q[k] = 0
    BY DEF Init, ReservedOf, OpenStatuses
  <2>2. Load(a) = SumOver(q, Keys) /\ IsFiniteSet(Keys)
    <3>1. Keys \ consumed[a] = Keys
      BY DEF Init
    <3> QED
      BY <3>1, KeysAssumption DEF Load, LoadOf
  <2>3. SumOver(q, Keys) = 0
    <3> HIDE DEF q
    <3> QED BY <2>1, <2>2, SumZero
  <2> QED
    BY <2>2, <2>3
<1> QED
  BY <1>2, <1>3, <1>4 DEF CInv, LoadInv

\* The load of an account is within the cap in every reachable state, and so are the
\* exposures its handlers have read and the room they have found.
THEOREM LoadBounded == Spec => []CInv
<1>1. Init => CInv
  BY InitCap
<1>2. IInv /\ IInv' /\ CInv /\ [Next]_vars => CInv'
  <2> SUFFICES ASSUME IInv, IInv', CInv, [Next]_vars PROVE CInv'
    OBVIOUS
  <2>1. TypeOK'
    BY DEF IInv
  <2>2. CASE \E t \in Tasks : HandlerStep(t)
    BY <2>1, <2>2, HandlerCap
  <2>3. CASE \E a \in Accounts, k \in Keys :
               \/ AcceptOrder(a, k) \/ RefuseOrder(a, k)
               \/ LoseRequest(a, k) \/ OrderProgress(a, k)
    BY <2>1, <2>3, ExchangeCap
  <2> QED
    BY <2>1, <2>2, <2>3, DaemonCap DEF Next
<1> QED
  BY <1>1, <1>2, Inductive, PTL DEF Spec

\* The exposure cap holds of what the exchange really has: orders no override let
\* through never commit more than the cap, for any number of accounts, keys and
\* handlers (_current_exposure, _enforce_caps_or_override, _place_and_record).
THEOREM CapHolds == Spec => []CapRespected
<1>1. IInv /\ CInv => CapRespected
  <2> SUFFICES ASSUME IInv, CInv, NEW a \in Accounts
               PROVE  SumOver(Commitment(a), Keys \ consumed[a]) <= Cap
    BY DEF CapRespected, SumOver
  <2>0. TypeOK /\ LiveOrderTracked
    BY TrackedByInv DEF IInv
  <2> DEFINE q == Commitment(a)
             r == ReservedOf(orders[a], filled[a])
             S == Keys \ consumed[a]
  <2>1. filled[a] \in [Keys -> Nat]
    BY <2>0 DEF TypeOK
  <2>2. /\ IsFiniteSet(S) /\ \A k \in Keys : r[k] \in Nat
        /\ LoadOf(orders[a], filled[a], consumed[a]) \in Nat
    BY <2>1, LoadType
  <2>3. ASSUME NEW k \in Keys PROVE q[k] \in Nat /\ q[k] <= r[k]
    <3>1. filled[a][k] \in Nat /\ Notional[k] \in Nat /\ filled[a][k] <= Notional[k]
      BY <2>1 DEF CInv, FillInv
    <3>2. CASE wire[a][k] > 0 \/ book[a][k] \in LiveStatuses
      <4>1. orders[a][k] \in OpenStatuses
        BY <2>0, <3>2 DEF LiveOrderTracked
      <4>2. q[k] = Notional[k] /\ r[k] = Notional[k]
        BY <3>2, <4>1 DEF Commitment, ReservedOf
      <4> QED
        BY <3>1, <4>2
    <3>3. CASE ~(wire[a][k] > 0 \/ book[a][k] \in LiveStatuses)
      <4>1. q[k] = filled[a][k] /\ r[k] \in {filled[a][k], Notional[k]}
        BY <3>3 DEF Commitment, ReservedOf
      <4> QED
        BY <3>1, <4>1
    <3> QED
      BY <3>2, <3>3
  <2>4. SumOver(q, S) <= SumOver(r, S)
    <3>1. \A k \in S : q[k] \in Int /\ r[k] \in Int /\ q[k] <= r[k]
      BY <2>2, <2>3
    <3> HIDE DEF q, r, S
    <3> QED BY <2>2, <3>1, SumPointwise
  <2>5. SumOver(q, S) \in Int
    <3>1. \A k \in S : q[k] \in Int
      BY <2>3
    <3> HIDE DEF q, r, S
    <3> QED BY <2>2, <3>1, SumInt
  <2>6. SumOver(r, S) = Load(a) /\ Load(a) <= Cap /\ Load(a) \in Nat
    BY <2>2 DEF CInv, LoadInv, Load, LoadOf
  <2> HIDE DEF q, r, S
  <2>7. SumOver(q, S) <= Cap
    BY <2>4, <2>5, <2>6
  <2> QED
    BY <2>7 DEF q, S
<1> QED
  BY <1>1, Inductive, LoadBounded, PTL

-----------------------------------------------------------------------------
(* Orphans of a crash *)

\* A row of a real account that is still NEW during startup has yet to be visited, is
\* being visited, could not be queried, or belongs to an order the exchange has.
OrphanKnown(a, k) ==
    \/ <<a, k>> \in stuck \cup errors
    \/ rec.busy /\ rec.acct = a /\ rec.key = k
    \/ book[a][k] # "absent"

OrphanInv ==
    /\ rec.busy /\ rec.found # "none" => book[rec.acct][rec.key] # "absent"
    /\ phase = "reconciling" =>
         \A a \in Accounts, k \in Keys :
            trading_lock[a] = "real" /\ orders[a][k] = "NEW" => OrphanKnown(a, k)

\* Every step keeps it: the loop drops an order from its list only to work on it or to
\* log an error, and writes NEW only when the exchange has answered so.
LEMMA NextOrphan ==
    ASSUME IInv, IInv', OrphanInv, [Next]_vars
    PROVE  OrphanInv'
<1> USE DEF dbVars, daemonVars, startVars, netVars, exchVars, boundVars
<1>0. /\ TypeOK /\ TypeOK' /\ StartupInv /\ StartupInv'
      /\ rec.acct \in Accounts /\ rec.key \in Keys
  BY DEF IInv, TypeOK
<1>1. CASE phase' # "reconciling"
  BY <1>0, <1>1 DEF OrphanInv, StartupInv
<1>2. CASE phase' = "reconciling" /\ phase = "reconciling"
  <2>0. \A t \in Tasks : req[t].pc = "idle"
    BY <1>0, <1>2 DEF StartupInv, At
  <2>1. CASE \E a \in Accounts, k \in Keys : ReconcileQuery(a, k)
    <3>1. PICK a \in Accounts, k \in Keys : ReconcileQuery(a, k)
      BY <2>1
    <3>2. PICK out \in QueryOutcomes(a, k) :
             IF out = "error"
               THEN errors' = errors \cup {<<a, k>>} /\ UNCHANGED rec
               ELSE rec' = [busy |-> TRUE, acct |-> a, key |-> k, found |-> out] /\ UNCHANGED errors
      BY <3>1 DEF ReconcileQuery
    <3>3. ~rec.busy /\ stuck' = stuck \ {<<a, k>>} /\ UNCHANGED <<trading_lock, orders, book>>
      BY <3>1 DEF ReconcileQuery
    <3>4. CASE out = "error"
      BY <1>2, <3>2, <3>3, <3>4 DEF OrphanInv, OrphanKnown
    <3>5. CASE out # "error"
      <4>1. rec'.busy /\ rec'.acct = a /\ rec'.key = k /\ rec'.found = out /\ errors' = errors
        BY <3>2, <3>5
      <4>2. out # "none" => book[a][k] # "absent"
        BY <3>5 DEF QueryOutcomes
      <4> QED
        BY <1>2, <3>3, <4>1, <4>2 DEF OrphanInv, OrphanKnown
    <3> QED
      BY <3>4, <3>5
  <2>2. CASE ReconcileWrite
    <3>1. /\ rec' = NoOrder /\ rec.busy
          /\ UNCHANGED <<trading_lock, stuck, errors, book>>
          /\ SetRow(rec.acct, rec.key, IF rec.found = "none" THEN "UNKNOWN" ELSE rec.found)
      BY <2>2 DEF ReconcileWrite
    <3>2. ~rec'.busy
      BY <3>1 DEF NoOrder
    <3>3. /\ orders'[rec.acct][rec.key] = IF rec.found = "none" THEN "UNKNOWN" ELSE rec.found
          /\ \A a \in Accounts, k \in Keys :
               ~(rec.acct = a /\ rec.key = k) => orders'[a][k] = orders[a][k]
      BY <1>0, <3>1 DEF SetRow, TypeOK
    <3>4. ASSUME NEW a \in Accounts, NEW k \in Keys,
                 trading_lock'[a] = "real", orders'[a][k] = "NEW"
          PROVE  OrphanKnown(a, k)'
      <4>1. CASE rec.acct = a /\ rec.key = k
        BY <3>1, <3>3, <3>4, <4>1 DEF OrphanInv, OrphanKnown
      <4>2. CASE ~(rec.acct = a /\ rec.key = k)
        <5>1. OrphanKnown(a, k)
          BY <1>2, <3>1, <3>3, <3>4, <4>2 DEF OrphanInv
        <5> QED
          BY <3>1, <4>2, <5>1 DEF OrphanKnown
      <4> QED
        BY <4>1, <4>2
    <3> QED
      BY <3>2, <3>4 DEF OrphanInv
  <2>3. CASE \E a \in Accounts, k \in Keys :
               \/ AcceptOrder(a, k) \/ RefuseOrder(a, k)
               \/ LoseRequest(a, k) \/ OrderProgress(a, k)
    <3>1. PICK a \in Accounts, k \in Keys :
               \/ AcceptOrder(a, k) \/ RefuseOrder(a, k)
               \/ LoseRequest(a, k) \/ OrderProgress(a, k)
      BY <2>3
    <3>2. UNCHANGED <<trading_lock, orders, phase, stuck, rec, errors>>
      BY <3>1 DEF AcceptOrder, RefuseOrder, LoseRequest, OrderProgress
    <3>3. UNCHANGED book \/ \E s \in ExchangeStatuses : book' = [book EXCEPT ![a][k] = s]
      BY <3>1 DEF AcceptOrder, RefuseOrder, LoseRequest, OrderProgress
    <3>4. \A b \in Accounts, j \in Keys : book[b][j] # "absent" => book'[b][j] # "absent"
      <4>1. "absent" \notin ExchangeStatuses
        BY DEF ExchangeStatuses, LiveStatuses, FinalStatuses
      <4>2. ASSUME NEW s \in ExchangeStatuses, book' = [book EXCEPT ![a][k] = s],
                   NEW b \in Accounts, NEW j \in Keys, book[b][j] # "absent"
            PROVE  book'[b][j] # "absent"
        <5>1. book'[b][j] \in {s, book[b][j]}
          BY <1>0, <4>2 DEF TypeOK
        <5> QED
          BY <4>1, <4>2, <5>1
      <4> QED
        BY <3>3, <4>2
    <3> QED
      BY <1>0, <1>2, <3>2, <3>4 DEF OrphanInv, OrphanKnown
  <2>4. CASE UNCHANGED <<trading_lock, orders, phase, stuck, rec, errors, book>>
    BY <2>4 DEF OrphanInv, OrphanKnown
  <2>5. CASE \E t \in Tasks : AcquireLock(t) \/ HandlerStep(t)
    BY <2>0, <2>5 DEF AcquireLock, HandlerStep, LoadOrder, QueryExisting, ApplyExisting, Preflight,
         ReadExposure, EnforceCaps, InsertOrder, SendOrder, ReceiveReply, Timeout,
         QueryAfterTimeout, SettleTimeout, At
  <2>6. CASE AbortReconcile
    <3>1. /\ ~rec'.busy
          /\ stuck \cup errors \subseteq errors'
          /\ rec.busy => <<rec.acct, rec.key>> \in errors'
          /\ UNCHANGED <<trading_lock, orders, book>>
      BY <2>6 DEF AbortReconcile, NoOrder
    <3> QED
      BY <1>2, <3>1 DEF OrphanInv, OrphanKnown
  <2> QED
    BY <1>2, <2>1, <2>2, <2>3, <2>4, <2>5, <2>6
       DEF Next, vars, ExecuteOnAccounts, PlaceOrder, Crash, StartDaemon, Serve,
           FlipTradingLock
<1>3. CASE phase' = "reconciling" /\ phase # "reconciling"
  <2>1. StartDaemon
    BY <1>3 DEF Next, vars, ExecuteOnAccounts, PlaceOrder, AcquireLock, HandlerStep, LoadOrder,
         QueryExisting, ApplyExisting, Preflight, ReadExposure, EnforceCaps, InsertOrder, SendOrder,
         ReceiveReply, Timeout, QueryAfterTimeout, SettleTimeout, Crash, ReconcileWrite, AbortReconcile, Serve,
         FlipTradingLock, ReconcileQuery, AcceptOrder, RefuseOrder, LoseRequest, OrderProgress
  <2>2. ~rec'.busy
    BY <1>0, <1>3, <2>1 DEF StartDaemon, StartupInv
  <2>3. ASSUME NEW a \in Accounts, NEW k \in Keys,
               trading_lock'[a] = "real", orders'[a][k] = "NEW"
        PROVE  <<a, k>> \in stuck'
    BY <2>1, <2>3 DEF StartDaemon, OpenStatuses
  <2> QED
    BY <2>2, <2>3 DEF OrphanInv, OrphanKnown
<1> QED
  BY <1>1, <1>2, <1>3

\* When the daemon serves after a crash, no orphan of the crash is left in NEW unless
\* its query failed (reconcile_open_orders): the startup loop visits every open row.
THEOREM OrphansFound == Spec => StartupFindsOrphans
<1> DEFINE Found == phase = "reconciling" /\ phase' = "serving" =>
                      \A a \in Accounts, k \in Keys :
                        trading_lock[a] = "real" /\ orders[a][k] = "NEW" =>
                            book[a][k] # "absent" \/ <<a, k>> \in errors
<1>1. Init => OrphanInv
  BY DEF Init, OrphanInv, NoOrder
<1>2. IInv /\ IInv' /\ OrphanInv /\ [Next]_vars => OrphanInv'
  BY NextOrphan
<1>3. IInv /\ OrphanInv /\ [Next]_vars => [Found]_phase
  <2> SUFFICES ASSUME IInv, OrphanInv, [Next]_vars, phase = "reconciling", phase' = "serving"
               PROVE  Found
    OBVIOUS
  <2> USE DEF dbVars, daemonVars, startVars, netVars, exchVars, boundVars
  <2>1. stuck = {} /\ ~rec.busy
    BY DEF Next, vars, ExecuteOnAccounts, PlaceOrder, AcquireLock, HandlerStep, LoadOrder,
         QueryExisting, ApplyExisting, Preflight, ReadExposure, EnforceCaps, InsertOrder, SendOrder,
         ReceiveReply, Timeout, QueryAfterTimeout, SettleTimeout, Crash, StartDaemon, ReconcileWrite,
         AbortReconcile, Serve, FlipTradingLock, ReconcileQuery, AcceptOrder, RefuseOrder, LoseRequest, OrderProgress
  <2> QED
    BY <2>1 DEF OrphanInv, OrphanKnown
<1> QED
  BY <1>1, <1>2, <1>3, Inductive, PTL DEF Spec, StartupFindsOrphans

-----------------------------------------------------------------------------
(* The refinement of IdempotentExecution *)

\* What a key has in the database, on the wire and on the exchange.
SameKey(a, k) == /\ orders'[a][k] = orders[a][k] /\ wire'[a][k] = wire[a][k]
                 /\ sent'[a][k] = sent[a][k] /\ book'[a][k] = book[a][k]

\* A step of the promise of a key, or none.
PromiseStep(a, k) == [Promise(a, k)!Next]_(Promise(a, k)!vars)

\* The promise sees nothing else.
LEMMA PromiseStutter ==
    ASSUME NEW a \in Accounts, NEW k \in Keys, SameKey(a, k)
    PROVE  PromiseStep(a, k)
<1>1. Attempt(a, k)' = Attempt(a, k) /\ Answer(a, k)' = Answer(a, k)
  BY DEF SameKey, Attempt, Answer
<1> QED
  BY <1>1 DEF PromiseStep, Promise!vars

\* The stage of an attempt, case by case.
LEMMA StageIs ==
    ASSUME NEW k \in Keys, NEW row \in RowStatuses, NEW w \in Nat, NEW n \in Nat,
           NEW b \in ExchangeStatuses \cup {"absent"}
    PROVE  /\ b \in LiveStatuses => Stage(k, row, w, n, b) = "live"
           /\ b \notin LiveStatuses \cup {"absent"} =>
                 /\ Stage(k, row, w, n, b) = QueryStatus(k, b)
                 /\ Stage(k, row, w, n, b) \in FinalStatuses \cup {"UNKNOWN"}
           /\ b = "absent" /\ w > 0 => Stage(k, row, w, n, b) = "underway"
           /\ b = "absent" /\ w = 0 /\ n > 0 => Stage(k, row, w, n, b) = "gone"
           /\ b = "absent" /\ w = 0 /\ n = 0 =>
                 /\ row = "none"  => Stage(k, row, w, n, b) = "unused"
                 /\ row = "paper" => Stage(k, row, w, n, b) = "paper"
                 /\ row \notin {"none", "paper"} => Stage(k, row, w, n, b) = "recorded"
<1>1. "absent" \notin LiveStatuses
  BY DEF LiveStatuses
<1>2. b \notin LiveStatuses \cup {"absent"} => QueryStatus(k, b) \in FinalStatuses \cup {"UNKNOWN"}
  BY DEF QueryStatus, ExchangeStatuses, FinalStatuses, LiveStatuses
<1> QED
  BY <1>1, <1>2 DEF Stage

\* The parts an attempt is read off.
LEMMA StageParts ==
    ASSUME NEW a \in Accounts, NEW k \in Keys, TypeOK
    PROVE  /\ wire[a][k] \in Nat /\ sent[a][k] \in Nat /\ book[a][k] \in ExchangeStatuses \cup {"absent"}
           /\ orders[a][k] \in RowStatuses
           /\ Attempt(a, k) = Stage(k, orders[a][k], wire[a][k], sent[a][k], book[a][k])
           /\ Attempt(a, k)' = Stage(k, orders'[a][k], wire'[a][k], sent'[a][k], book'[a][k])
<1>1. /\ wire[a][k] \in Nat /\ sent[a][k] \in Nat /\ book[a][k] \in ExchangeStatuses \cup {"absent"}
      /\ orders[a][k] \in RowStatuses
  BY DEF TypeOK
<1> QED
  BY <1>1 DEF Attempt

\* A write of a true status into an open row publishes it, or leaves the answer open.
LEMMA PromiseWrite ==
    ASSUME IInv, NEW a \in Accounts, NEW k \in Keys, NEW s \in ORDER_STATUSES,
           SetRow(a, k, s), Writable(a, k, s), orders[a][k] \in OpenStatuses,
           s = "REJECTED" /\ book[a][k] = "absent" => sent[a][k] > 0,
           UNCHANGED <<wire, sent, book>>
    PROVE  \A b \in Accounts, j \in Keys : PromiseStep(b, j)
<1>1. TypeOK
  BY DEF IInv
<1>2. \A b \in Accounts, j \in Keys : <<b, j>> # <<a, k>> => SameKey(b, j)
  BY <1>1 DEF SetRow, TypeOK, SameKey
<1>3. orders'[a][k] = s
  BY <1>1 DEF SetRow, TypeOK
<1>4. Attempt(a, k)' = Attempt(a, k)
  <2>1. SendOK(a, k) /\ s \in RowStatuses \ {"none", "paper"} /\ orders[a][k] \notin {"none", "paper"}
    BY DEF IInv, SendInv, RowStatuses, ORDER_STATUSES, OpenStatuses, FinalStatuses
  <2> QED
    BY <1>1, <1>3, <2>1, StageParts, StageIs
<1>5. CASE s \in OpenStatuses
  <2>1. Answer(a, k)' = Answer(a, k)
    BY <1>3, <1>5 DEF Answer
  <2> QED
    BY <1>2, <1>4, <2>1, PromiseStutter DEF PromiseStep, Promise!vars
<1>6. CASE s \in FinalStatuses
  <2>1. Answer(a, k) = "open" /\ Answer(a, k)' = s /\ s \in Promise(a, k)!Finals
    BY <1>3, <1>6 DEF Answer, OpenStatuses, FinalStatuses, Promise!Finals
  <2>2. s = Attempt(a, k) \/ (s = "REJECTED" /\ Attempt(a, k) = "gone")
    <3>1. CASE book[a][k] = "absent"
      <4>1. wire[a][k] = 0 /\ s = "REJECTED" /\ sent[a][k] > 0
        BY <1>6, <3>1 DEF Writable
      <4> QED
        BY <1>1, <3>1, <4>1, StageParts, StageIs
    <3>2. CASE book[a][k] # "absent"
      <4>1. s = QueryStatus(k, book[a][k]) /\ book[a][k] \in ExchangeStatuses
        BY <1>1, <1>6, <3>2 DEF Writable, TypeOK
      <4>2. book[a][k] \notin LiveStatuses
        BY <1>6, <4>1 DEF QueryStatus, LiveStatuses, FinalStatuses
      <4> QED
        BY <1>1, <3>2, <4>1, <4>2, StageParts, StageIs
    <3> QED
      BY <3>1, <3>2
  <2>3. Promise(a, k)!Publish
    BY <1>4, <2>1, <2>2 DEF Promise!Publish
  <2> QED
    BY <1>2, <2>3, PromiseStutter DEF PromiseStep, Promise!Next
<1> QED
  BY <1>5, <1>6 DEF ORDER_STATUSES

\* An insert uses the key, for a paper order or for an attempt.
LEMMA PromiseInsert ==
    ASSUME IInv, NEW a \in Accounts, NEW k \in Keys, NEW s \in {"NEW", "paper"},
           SetRow(a, k, s), orders[a][k] = "none", UNCHANGED <<wire, sent, book>>
    PROVE  \A b \in Accounts, j \in Keys : PromiseStep(b, j)
<1>1. TypeOK /\ SendOK(a, k)
  BY DEF IInv, SendInv
<1>2. \A b \in Accounts, j \in Keys : <<b, j>> # <<a, k>> => SameKey(b, j)
  BY <1>1 DEF SetRow, TypeOK, SameKey
<1>3. orders'[a][k] = s /\ sent[a][k] = 0 /\ sent'[a][k] = 0 /\ book'[a][k] = "absent" /\ wire'[a][k] = 0
  BY <1>1 DEF SetRow, TypeOK, SendOK
<1>4. Attempt(a, k) = "unused"
  BY <1>1, <1>3, StageParts, StageIs
<1>5. CASE s = "NEW"
  <2>1. s \in RowStatuses \ {"none", "paper"} /\ s \in OpenStatuses
    BY <1>5 DEF OpenStatuses, RowStatuses, ORDER_STATUSES
  <2>2. Attempt(a, k)' = "recorded"
    BY <1>1, <1>3, <2>1, StageParts, StageIs
  <2>3. Answer(a, k)' = "open"
    BY <1>3, <2>1 DEF Answer
  <2>4. Promise(a, k)!Record
    BY <1>4, <2>2, <2>3 DEF Promise!Record
  <2> QED
    BY <1>2, <2>4, PromiseStutter DEF PromiseStep, Promise!Next
<1>6. CASE s = "paper"
  <2>1. "paper" \in RowStatuses /\ "paper" \notin OpenStatuses
    BY DEF OpenStatuses, RowStatuses
  <2>2. Attempt(a, k)' = "paper"
    BY <1>1, <1>3, <1>6, <2>1, StageParts, StageIs
  <2>3. Answer(a, k)' = "paper"
    BY <1>3, <1>6, <2>1 DEF Answer
  <2>4. Promise(a, k)!Paper
    BY <1>4, <2>2, <2>3 DEF Promise!Paper
  <2> QED
    BY <1>2, <2>4, PromiseStutter DEF PromiseStep, Promise!Next
<1> QED
  BY <1>5, <1>6

\* The request leaves the daemon once, for a key on record.
LEMMA PromiseSend ==
    ASSUME IInv, NEW t \in Tasks, SendOrder(t)
    PROVE  \A b \in Accounts, j \in Keys : PromiseStep(b, j)
<1> USE DEF dbVars, netVars, exchVars, boundVars
<1>0. TypeOK /\ HandlerOK(t) /\ req[t].acct \in Accounts /\ req[t].key \in Keys
  BY DEF IInv, HandlerInv, TypeOK, Request
<1> SUFFICES ASSUME NEW a \in Accounts, NEW k \in Keys, a = req[t].acct, k = req[t].key
             PROVE  \A b \in Accounts, j \in Keys : PromiseStep(b, j)
  BY <1>0
<1>1. TypeOK /\ HandlerOK(t) /\ "NEW" \in RowStatuses
  BY <1>0 DEF RowStatuses, ORDER_STATUSES, OpenStatuses
<1>2. orders[a][k] = "NEW" /\ sent[a][k] = 0 /\ SendOK(a, k) /\ wire[a][k] \in Nat
  BY <1>1 DEF HandlerOK, SendOrder, At, IInv, SendInv, TypeOK
<1>3. wire[a][k] = 0 /\ book[a][k] = "absent"
  BY <1>2 DEF SendOK
<1>4. /\ \A b \in Accounts, j \in Keys : <<b, j>> # <<a, k>> => SameKey(b, j)
      /\ wire'[a][k] = 1 /\ book'[a][k] = "absent" /\ orders'[a][k] = "NEW"
  BY <1>1, <1>2, <1>3 DEF SendOrder, TypeOK, SameKey
<1>5. Attempt(a, k) = "recorded"
  BY <1>1, <1>2, <1>3, StageParts, StageIs
<1>6. Attempt(a, k)' = "underway" /\ Answer(a, k)' = Answer(a, k)
  <2>1. sent'[a][k] = 1
    BY <1>1, <1>2 DEF SendOrder, TypeOK
  <2>2. Attempt(a, k)' = "underway"
    BY <1>1, <1>2, <1>4, <2>1, StageParts, StageIs
  <2> QED
    BY <1>2, <1>4, <2>2 DEF Answer
<1>7. Promise(a, k)!Send
  BY <1>5, <1>6 DEF Promise!Send
<1> QED
  BY <1>1, <1>4, <1>7, PromiseStutter DEF PromiseStep, Promise!Next

\* A request that is over has created an order, or none and never will.
LEMMA PromiseArrive ==
    ASSUME IInv, IInv', NEW a \in Accounts, NEW k \in Keys,
           AcceptOrder(a, k) \/ RefuseOrder(a, k) \/ LoseRequest(a, k)
    PROVE  \A b \in Accounts, j \in Keys : PromiseStep(b, j)
<1> USE DEF dbVars, netVars, exchVars, boundVars
<1>1. TypeOK /\ SendOK(a, k) /\ wire[a][k] \in Nat /\ sent[a][k] \in Nat
  BY DEF IInv, SendInv, TypeOK
<1>2. wire[a][k] = 1 /\ sent[a][k] = 1 /\ book[a][k] = "absent"
  BY <1>1 DEF SendOK, AcceptOrder, RefuseOrder, LoseRequest
<1>3. Attempt(a, k) = "underway"
  BY <1>1, <1>2, StageParts, StageIs
<1>4. orders' = orders /\ sent' = sent /\ wire' = [wire EXCEPT ![a][k] = @ - 1]
  BY DEF AcceptOrder, RefuseOrder, LoseRequest
<1>5. book' = book \/ \E s \in ExchangeStatuses : book' = [book EXCEPT ![a][k] = s]
  BY DEF AcceptOrder, RefuseOrder, LoseRequest
<1>6. \A b \in Accounts, j \in Keys : <<b, j>> # <<a, k>> => SameKey(b, j)
  BY <1>1, <1>4, <1>5 DEF TypeOK, SameKey
<1>7. Answer(a, k)' = Answer(a, k)
  BY <1>4 DEF Answer
<1>8. wire'[a][k] = 0 /\ sent'[a][k] = 1 /\ book'[a][k] \in ExchangeStatuses \cup {"absent"}
  BY <1>1, <1>2, <1>4, <1>5 DEF TypeOK
<1>9. Attempt(a, k)' \in {"live", "gone"} \cup FinalStatuses \cup {"UNKNOWN"}
  <2>1. orders'[a][k] \in RowStatuses
    BY <1>1, <1>4, StageParts
  <2>2. book'[a][k] \in LiveStatuses \cup {"absent"} \/ book'[a][k] \notin LiveStatuses \cup {"absent"}
    OBVIOUS
  <2> QED
    BY <1>1, <1>8, <2>1, <2>2, StageParts, StageIs
<1>10. Promise(a, k)!Arrive
  BY <1>3, <1>7, <1>9 DEF Promise!Arrive, Promise!Ends, Promise!Finals, FinalStatuses
<1> QED
  BY <1>6, <1>10, PromiseStutter DEF PromiseStep, Promise!Next

\* A live order goes on, or ends.
LEMMA PromiseEnd ==
    ASSUME IInv, NEW a \in Accounts, NEW k \in Keys, OrderProgress(a, k)
    PROVE  \A b \in Accounts, j \in Keys : PromiseStep(b, j)
<1> USE DEF dbVars, netVars, exchVars, boundVars
<1>1. TypeOK
  BY DEF IInv
<1>2. PICK s \in ExchangeStatuses : book' = [book EXCEPT ![a][k] = s]
  BY DEF OrderProgress
<1>3. orders' = orders /\ sent' = sent /\ wire' = wire
  BY DEF OrderProgress
<1>4. /\ \A b \in Accounts, j \in Keys : <<b, j>> # <<a, k>> => SameKey(b, j)
      /\ book'[a][k] = s /\ Answer(a, k)' = Answer(a, k)
  BY <1>1, <1>2, <1>3 DEF TypeOK, SameKey, Answer
<1>5. Attempt(a, k) = "live"
  <2>1. book[a][k] \in LiveStatuses
    BY DEF OrderProgress
  <2> QED
    BY <1>1, <2>1, StageParts, StageIs
<1>6. CASE s \in LiveStatuses
  <2>1. Attempt(a, k)' = "live"
    BY <1>1, <1>3, <1>4, <1>6, StageParts, StageIs
  <2> QED
    BY <1>4, <1>5, <2>1, PromiseStutter DEF PromiseStep, Promise!vars
<1>7. CASE s \notin LiveStatuses
  <2>1. s # "absent"
    BY DEF ExchangeStatuses, FinalStatuses, LiveStatuses
  <2>2. Attempt(a, k)' \in FinalStatuses \cup {"UNKNOWN"}
    BY <1>1, <1>3, <1>4, <1>7, <2>1, StageParts, StageIs
  <2>3. Promise(a, k)!End
    BY <1>4, <1>5, <2>2 DEF Promise!End, Promise!Ends, Promise!Finals, FinalStatuses
  <2> QED
    BY <1>4, <2>3, PromiseStutter DEF PromiseStep, Promise!Next
<1> QED
  BY <1>6, <1>7

\* A handler writes into a key that is free, or what is true of one that is on record.
LEMMA PromiseHandler ==
    ASSUME IInv, NEW t \in Tasks, HandlerStep(t)
    PROVE  \A b \in Accounts, j \in Keys : PromiseStep(b, j)
<1> USE DEF dbVars, netVars, exchVars, boundVars
<1> DEFINE r == req[t]
<1>1. TypeOK /\ HandlerOK(t) /\ r.acct \in Accounts /\ r.key \in Keys
  BY DEF IInv, HandlerInv, TypeOK, Request
<1>2. r.found \in Outcomes /\ r.reply \in Replies
  BY <1>1 DEF TypeOK, Request
<1>3. SendOK(r.acct, r.key) /\ sent[r.acct][r.key] \in Nat
  BY <1>1 DEF IInv, SendInv, TypeOK
<1>4. CASE ApplyExisting(t)
  <2>1. /\ r.found \in ORDER_STATUSES /\ Seen(r.acct, r.key, r.found)
        /\ orders[r.acct][r.key] \in OpenStatuses
    BY <1>1, <1>4 DEF ApplyExisting, At, HandlerOK
  <2>2. Writable(r.acct, r.key, r.found)
    BY <1>3, <2>1 DEF Writable, Seen, SendOK, ORDER_STATUSES, OpenStatuses, FinalStatuses
  <2>3. r.found = "REJECTED" => book[r.acct][r.key] # "absent"
    BY <2>1 DEF Seen, FinalStatuses
  <2> QED
    BY <1>1, <1>4, <2>1, <2>2, <2>3, PromiseWrite DEF ApplyExisting
<1>5. CASE InsertOrder(t)
  <2>1. SetRow(r.acct, r.key, "NEW") \/ SetRow(r.acct, r.key, "paper")
    BY <1>5 DEF InsertOrder
  <2> QED
    BY <1>1, <1>5, <2>1, PromiseInsert DEF InsertOrder
<1>6. CASE ReceiveReply(t)
  <2> DEFINE s == CASE r.reply = "refused"      -> "REJECTED"
                    [] r.reply = "unauthorized" -> "UNKNOWN"
                    [] OTHER                    -> r.reply
  <2>1. /\ SetRow(r.acct, r.key, s) /\ r.reply \in Replies \ {"none"}
        /\ UNCHANGED <<wire, sent, book>>
    BY <1>2, <1>6 DEF ReceiveReply
  <2>2. /\ wire[r.acct][r.key] = 0
        /\ r.reply = "refused" => book[r.acct][r.key] = "absent"
        /\ Seen(r.acct, r.key, r.reply)
        /\ orders[r.acct][r.key] \in OpenStatuses
        /\ sent[r.acct][r.key] > 0
    BY <1>1, <1>6, <2>1 DEF ReceiveReply, At, HandlerOK, OpenStatuses
  <2>3. s \in ORDER_STATUSES
    BY <2>1 DEF Replies, ORDER_STATUSES, OpenStatuses, FinalStatuses
  <2>4. Writable(r.acct, r.key, s)
    BY <2>1, <2>2 DEF Writable, Seen, Replies, ORDER_STATUSES, OpenStatuses, FinalStatuses
  <2> HIDE DEF s
  <2> QED
    BY <1>1, <2>1, <2>2, <2>3, <2>4, PromiseWrite
<1>7. CASE SettleTimeout(t)
  <2> DEFINE s == IF r.found \in {"error", "none"} THEN "UNKNOWN" ELSE r.found
  <2>1. SetRow(r.acct, r.key, s) /\ UNCHANGED <<wire, sent, book>>
    BY <1>7 DEF SettleTimeout
  <2>2. /\ Seen(r.acct, r.key, r.found) /\ orders[r.acct][r.key] \in OpenStatuses
        /\ sent[r.acct][r.key] > 0
    BY <1>1, <1>7 DEF SettleTimeout, At, HandlerOK, OpenStatuses
  <2>3. s \in ORDER_STATUSES
    BY <1>2 DEF Outcomes, ORDER_STATUSES, OpenStatuses
  <2>4. Writable(r.acct, r.key, s)
    BY <1>2, <1>3, <2>2 DEF Writable, Seen, SendOK, Outcomes, ORDER_STATUSES, OpenStatuses,
                            FinalStatuses
  <2> HIDE DEF s
  <2> QED
    BY <1>1, <2>1, <2>2, <2>3, <2>4, PromiseWrite
<1>8. CASE SendOrder(t)
  BY <1>8, PromiseSend
<1>9. CASE \/ LoadOrder(t) \/ QueryExisting(t) \/ Preflight(t) \/ ReadExposure(t)
           \/ EnforceCaps(t) \/ Timeout(t) \/ QueryAfterTimeout(t)
  <2>1. UNCHANGED <<orders, wire, sent, book>>
    BY <1>9 DEF LoadOrder, QueryExisting, Preflight, ReadExposure, EnforceCaps, Timeout,
                QueryAfterTimeout
  <2> QED
    BY <2>1, PromiseStutter DEF SameKey
<1> QED
  BY <1>4, <1>5, <1>6, <1>7, <1>8, <1>9 DEF HandlerStep

\* Every step of the order service is a step of the promise of each key, or none.
LEMMA PromiseNext ==
    ASSUME IInv, IInv', [Next]_vars, NEW a \in Accounts, NEW k \in Keys
    PROVE  PromiseStep(a, k)
<1> USE DEF dbVars, daemonVars, startVars, netVars, exchVars, boundVars
<1>1. ASSUME UNCHANGED <<orders, wire, sent, book>> PROVE PromiseStep(a, k)
  BY <1>1, PromiseStutter DEF SameKey
<1>2. CASE \E t \in Tasks : HandlerStep(t)
  BY <1>2, PromiseHandler
<1>3. CASE \E b \in Accounts, j \in Keys : AcceptOrder(b, j) \/ RefuseOrder(b, j) \/ LoseRequest(b, j)
  BY <1>3, PromiseArrive
<1>4. CASE \E b \in Accounts, j \in Keys : OrderProgress(b, j)
  BY <1>4, PromiseEnd
<1>5. CASE ReconcileWrite
  <2> DEFINE s == IF rec.found = "none" THEN "UNKNOWN" ELSE rec.found
  <2>1. TypeOK /\ StartupInv /\ rec.busy
    BY <1>5 DEF IInv, ReconcileWrite
  <2>2. /\ rec.acct \in Accounts /\ rec.key \in Keys /\ rec.found \in Outcomes \ {"error"}
        /\ orders[rec.acct][rec.key] \in OpenStatuses /\ Seen(rec.acct, rec.key, rec.found)
    BY <2>1 DEF TypeOK, StartupInv
  <2>3. s \in ORDER_STATUSES
    BY <2>2 DEF Outcomes, ORDER_STATUSES, OpenStatuses
  <2>4. SetRow(rec.acct, rec.key, s) /\ UNCHANGED <<wire, sent, book>>
    BY <1>5 DEF ReconcileWrite
  <2>5. SendOK(rec.acct, rec.key)
    BY <2>2 DEF IInv, SendInv
  <2>6. Writable(rec.acct, rec.key, s) /\ (s = "REJECTED" => book[rec.acct][rec.key] # "absent")
    BY <2>2, <2>5 DEF Writable, Seen, SendOK, Outcomes, ORDER_STATUSES, OpenStatuses, FinalStatuses
  <2> HIDE DEF s
  <2> QED
    BY <2>2, <2>3, <2>4, <2>6, PromiseWrite
<1>6. ASSUME NEW t \in Tasks, NEW j \in Keys, NEW T \in SUBSET Accounts, ExecuteOnAccounts(t, j, T)
      PROVE  PromiseStep(a, k)
  BY <1>1, <1>6 DEF ExecuteOnAccounts
<1>7. ASSUME NEW t \in Tasks, NEW j \in Keys, NEW b \in Accounts, PlaceOrder(t, j, b)
      PROVE  PromiseStep(a, k)
  BY <1>1, <1>7 DEF PlaceOrder
<1>8. ASSUME NEW t \in Tasks, AcquireLock(t) PROVE PromiseStep(a, k)
  BY <1>1, <1>8 DEF AcquireLock
<1>9. CASE Crash \/ StartDaemon \/ AbortReconcile \/ Serve \/ UNCHANGED vars
  BY <1>1, <1>9 DEF Crash, StartDaemon, AbortReconcile, Serve, vars
<1>10. ASSUME NEW b \in Accounts, FlipTradingLock(b) PROVE PromiseStep(a, k)
  BY <1>1, <1>10 DEF FlipTradingLock
<1>11. ASSUME NEW b \in Accounts, NEW j \in Keys, ReconcileQuery(b, j) PROVE PromiseStep(a, k)
  BY <1>1, <1>11 DEF ReconcileQuery
<1> QED
  BY <1>2, <1>3, <1>4, <1>5, <1>6, <1>7, <1>8, <1>9, <1>10, <1>11 DEF Next

\* Nothing has been asked for.
LEMMA PromiseInit ==
    ASSUME Init, NEW a \in Accounts, NEW k \in Keys
    PROVE  Promise(a, k)!Init
<1>1. book[a][k] = "absent" /\ wire[a][k] = 0 /\ sent[a][k] = 0 /\ orders[a][k] = "none"
  BY DEF Init
<1> QED
  BY <1>1, StageIs DEF Promise!Init, Attempt, Answer, OpenStatuses, RowStatuses

\* For every account and key the order service implements IdempotentExecution: whatever
\* handlers, timeouts, retries, crashes and restarts interleave, the key is recorded before
\* it is sent, sent once, and its row becomes final when the order has ended, in that way.
THEOREM KeyImplemented ==
    ASSUME NEW a \in Accounts, NEW k \in Keys
    PROVE  Spec => Promise(a, k)!Spec
<1>1. Init => Promise(a, k)!Init
  BY PromiseInit
<1>2. IInv /\ IInv' /\ [Next]_vars => [Promise(a, k)!Next]_(Promise(a, k)!vars)
  BY PromiseNext DEF PromiseStep
<1> QED
  BY <1>1, <1>2, Inductive, PTL DEF Spec, Promise!Spec

\* The same for all of them together, as TLC checks it.
THEOREM KeysImplemented == Spec => KeyIsOneAttempt
<1> DEFINE Step == \A a \in Accounts, k \in Keys : [Promise(a, k)!Next]_(Promise(a, k)!vars)
<1>1. Init => \A a \in Accounts, k \in Keys : Promise(a, k)!Init
  BY PromiseInit
<1>2. IInv /\ IInv' /\ [Next]_vars => [Step]_vars
  BY PromiseNext DEF PromiseStep
<1> QED
  BY <1>1, <1>2, Inductive, PTL DEF Spec, KeyIsOneAttempt

-----------------------------------------------------------------------------
(* One daemon serves (modules DaemonLock and AdapterLauncher) *)

CONSTANTS Daemons, Nobody, Adapters, max_retries, lock_probe_retries, SlowWriter, MaxKills, MaxStops
VARIABLES owner, written, pc, seen, tries, rereads, port, kills, stops, adapter
Launcher == INSTANCE AdapterLauncher WITH MaxCrashes <- MaxKills, crashes <- kills

\* What the constants of the launcher are
LauncherAssumption ==
    /\ Nobody \notin Daemons
    /\ max_retries \in Nat \ {0} /\ lock_probe_retries \in Nat \ {0}
    /\ MaxKills \in Nat /\ MaxStops \in Nat

\* The daemon that has the port is the one that serves.
PortServed == \A d \in Daemons : pc[d] \in {"bound", "ready"} <=> port = d

\* acquire is in its loop before the last iteration ends.
LoopBound ==
    \A d \in Daemons :
        pc[d] \in {"off", "read", "exists", "reread", "unlink_corrupt", "check", "unlink_stale", "create"}
          => tries[d] < max_retries

\* The inductive invariant
LauncherInv == Launcher!TypeOK /\ Launcher!AdapterTypeOK /\ LoopBound /\ PortServed

\* At most one daemon serves.
OneServer ==
    \A d, e \in Daemons : pc[d] \in {"bound", "ready"} /\ pc[e] \in {"bound", "ready"} => d = e

\* At first no daemon runs.
LEMMA LauncherInit == ASSUME LauncherAssumption PROVE Launcher!AdapterInit => LauncherInv
  <1> SUFFICES ASSUME Launcher!AdapterInit PROVE LauncherInv
    OBVIOUS
  <1> USE DEF LauncherAssumption, Launcher!AdapterInit, Launcher!Init
  <1>1. Launcher!TypeOK
    BY DEF Launcher!TypeOK, Launcher!PCs
  <1>2. Launcher!AdapterTypeOK
    BY DEF Launcher!AdapterTypeOK, Launcher!AdapterPCs, Launcher!Off
  <1>3. LoopBound
    BY DEF LoopBound
  <1>4. PortServed
    BY DEF PortServed
  <1> QED BY <1>1, <1>2, <1>3, <1>4 DEF LauncherInv

\* A step of a daemon keeps the types, the bound of the loop and the port.
LEMMA DaemonKeeps ==
    ASSUME LauncherAssumption, LauncherInv, NEW d \in Daemons,
           Launcher!Start(d) \/ Launcher!DaemonStep(d) \/ Launcher!Stop(d) \/ Launcher!Crash(d)
    PROVE  Launcher!TypeOK' /\ LoopBound' /\ PortServed'
  <1> USE DEF LauncherAssumption, LauncherInv, Launcher!TypeOK, Launcher!PCs, Launcher!Goto, LoopBound,
              PortServed
  <1>1. CASE Launcher!Start(d)
    BY <1>1 DEF Launcher!Start
  <1>2. CASE Launcher!ReadLock(d)
    BY <1>2 DEF Launcher!ReadLock, Launcher!read_lock
  <1>3. CASE Launcher!Exists(d)
    BY <1>3 DEF Launcher!Exists
  <1>4. CASE Launcher!Reread(d)
    BY <1>4 DEF Launcher!Reread, Launcher!read_lock
  <1>5. CASE Launcher!UnlinkCorrupt(d)
    BY <1>5 DEF Launcher!UnlinkCorrupt
  <1>6. CASE Launcher!CheckOwner(d)
    BY <1>6 DEF Launcher!CheckOwner
  <1>7. CASE Launcher!UnlinkStale(d)
    <2>1. pc[d] = "unlink_stale" /\ tries[d] < max_retries /\ tries[d] \in Nat
      BY <1>7 DEF Launcher!UnlinkStale
    <2>2. Launcher!TypeOK'
      <3>1. tries' \in [Daemons -> 0 .. max_retries]
        BY <1>7, <2>1 DEF Launcher!UnlinkStale, Launcher!Retry
      <3>2. pc' \in [Daemons -> Launcher!PCs]
        BY <1>7 DEF Launcher!UnlinkStale, Launcher!Retry
      <3> QED BY <1>7, <3>1, <3>2 DEF Launcher!UnlinkStale
    <2>3. LoopBound'
      BY <1>7, <2>1 DEF Launcher!UnlinkStale, Launcher!Retry
    <2>4. PortServed'
      BY <1>7, <2>1 DEF Launcher!UnlinkStale, Launcher!Retry
    <2> QED BY <2>2, <2>3, <2>4
  <1>8. CASE Launcher!Create(d)
    BY <1>8 DEF Launcher!Create, Launcher!Retry
  <1>9. CASE Launcher!Write(d)
    BY <1>9 DEF Launcher!Write
  <1>10. CASE Launcher!Migrate(d)
    BY <1>10 DEF Launcher!Migrate, Launcher!UpdateState
  <1>11. CASE Launcher!WarmUp(d)
    BY <1>11 DEF Launcher!WarmUp, Launcher!UpdateState
  <1>12. CASE Launcher!StartHttp(d)
    BY <1>12 DEF Launcher!StartHttp
  <1>13. CASE Launcher!Ready(d)
    BY <1>13 DEF Launcher!Ready, Launcher!UpdateState
  <1>14. CASE Launcher!OwnershipWatch(d)
    BY <1>14 DEF Launcher!OwnershipWatch
  <1>15. CASE Launcher!Stop(d)
    BY <1>15 DEF Launcher!Stop
  <1>16. CASE Launcher!Release(d)
    BY <1>16 DEF Launcher!Release
  <1>17. CASE Launcher!UnlinkOwn(d)
    BY <1>17 DEF Launcher!UnlinkOwn
  <1>18. CASE Launcher!Crash(d)
    BY <1>18 DEF Launcher!Crash, Launcher!Alive
  <1> QED BY <1>1, <1>2, <1>3, <1>4, <1>5, <1>6, <1>7, <1>8, <1>9, <1>10, <1>11, <1>12,
             <1>13, <1>14, <1>15, <1>16, <1>17, <1>18 DEF Launcher!DaemonStep

\* An adapter touches the lock file and starts daemons; it has no part in the port.
LEMMA AdapterKeeps ==
    ASSUME LauncherAssumption, LauncherInv, NEW c \in Adapters,
           Launcher!EnsureDaemon(c) \/ Launcher!AdapterStep(c)
    PROVE  LauncherInv'
  <1> USE DEF LauncherAssumption, LauncherInv
  <1>1. Launcher!AdapterTypeOK'
    <2>1. Launcher!read_lock \in Daemons \cup {Nobody}
      BY DEF Launcher!TypeOK, Launcher!read_lock
    <2> USE DEF Launcher!AdapterTypeOK, Launcher!AdapterPCs, Launcher!Move, Launcher!MoveWith,
                Launcher!End, Launcher!Off
    <2>2. CASE Launcher!EnsureDaemon(c)
      BY <2>1, <2>2 DEF Launcher!EnsureDaemon
    <2>3. CASE Launcher!CleanupStaleLock(c)
      BY <2>1, <2>3 DEF Launcher!CleanupStaleLock
    <2>4. CASE Launcher!ReadLockAgain(c)
      <3>1. PICK l \in Launcher!AdapterPCs : Launcher!MoveWith(c, l, Launcher!read_lock)
        BY <2>4 DEF Launcher!ReadLockAgain
      <3> QED BY <2>1, <3>1
    <2>5. CASE Launcher!Recheck(c)
      BY <2>1, <2>5 DEF Launcher!Recheck
    <2>6. CASE Launcher!UnlinkDead(c)
      BY <2>1, <2>6 DEF Launcher!UnlinkDead
    <2>7. CASE Launcher!HttpProbe(c)
      BY <2>1, <2>7 DEF Launcher!HttpProbe
    <2>8. CASE Launcher!UnlinkMute(c)
      BY <2>1, <2>8 DEF Launcher!UnlinkMute
    <2>9. CASE Launcher!SpawnDaemon(c)
      BY <2>1, <2>9 DEF Launcher!SpawnDaemon
    <2>10. CASE Launcher!WaitForLock(c)
      BY <2>1, <2>10 DEF Launcher!WaitForLock
    <2>11. CASE Launcher!WaitUntilReady(c)
      BY <2>1, <2>11 DEF Launcher!WaitUntilReady
    <2>12. CASE Launcher!Deadline(c)
      BY <2>1, <2>12 DEF Launcher!Deadline
    <2> QED BY <2>2, <2>3, <2>4, <2>5, <2>6, <2>7, <2>8, <2>9, <2>10, <2>11, <2>12 DEF Launcher!AdapterStep
  <1>2. Launcher!TypeOK' /\ LoopBound' /\ PortServed'
    <2>1. CASE UNCHANGED Launcher!vars
      BY <2>1 DEF Launcher!vars, Launcher!TypeOK, LoopBound, PortServed
    <2>2. CASE Launcher!UnlinkPath
      BY <2>2 DEF Launcher!UnlinkPath, Launcher!TypeOK, LoopBound, PortServed
    <2>3. CASE \E d \in Daemons : Launcher!Start(d)
      BY <2>3, DaemonKeeps
    <2> QED BY <2>1, <2>2, <2>3 DEF Launcher!AdapterStep, Launcher!EnsureDaemon, Launcher!CleanupStaleLock,
        Launcher!ReadLockAgain, Launcher!Recheck, Launcher!UnlinkDead, Launcher!HttpProbe, Launcher!UnlinkMute,
        Launcher!SpawnDaemon, Launcher!WaitForLock, Launcher!WaitUntilReady, Launcher!Deadline
  <1> QED BY <1>1, <1>2

\* Every step of the daemons and the adapters keeps the invariant.
LEMMA LauncherNext ==
    ASSUME LauncherAssumption PROVE LauncherInv /\ [Launcher!AdapterNext]_Launcher!allVars => LauncherInv'
  <1> SUFFICES ASSUME LauncherInv, [Launcher!AdapterNext]_Launcher!allVars PROVE LauncherInv'
    OBVIOUS
  <1>1. CASE UNCHANGED Launcher!allVars
    BY <1>1 DEF LauncherInv, Launcher!allVars, Launcher!vars, Launcher!TypeOK, Launcher!AdapterTypeOK,
        LoopBound, PortServed
  <1>2. ASSUME NEW d \in Daemons, UNCHANGED adapter,
               Launcher!DaemonStep(d) \/ Launcher!Stop(d) \/ Launcher!Crash(d)
        PROVE  LauncherInv'
    <2>1. Launcher!AdapterTypeOK'
      BY <1>2 DEF LauncherInv, Launcher!AdapterTypeOK
    <2> QED BY <1>2, <2>1, DaemonKeeps DEF LauncherInv
  <1> QED BY <1>1, <1>2, AdapterKeeps DEF Launcher!AdapterNext

\* Type correctness of the daemons and the adapters: acquire makes at most max_retries
\* iterations with three re-reads each, and an adapter at most lock_probe_retries probes.
THEOREM LauncherTypes ==
    ASSUME LauncherAssumption PROVE Launcher!AdapterSpec => [](Launcher!TypeOK /\ Launcher!AdapterTypeOK)
  <1>1. LauncherInv => Launcher!TypeOK /\ Launcher!AdapterTypeOK
    BY DEF LauncherInv
  <1> QED BY <1>1, LauncherInit, LauncherNext, PTL DEF Launcher!AdapterSpec

\* Although adapters remove lock files and two daemons may hold the lock at once, at most
\* one of them serves: the locks of OrderService (the variable locks of OrderExecution) and
\* the transactions that follow a check are never split between two processes that take
\* requests.
THEOREM OneDaemonServes == ASSUME LauncherAssumption PROVE Launcher!AdapterSpec => []OneServer
  <1>1. LauncherInv => OneServer
    BY DEF LauncherInv, PortServed, OneServer
  <1> QED BY <1>1, LauncherInit, LauncherNext, PTL DEF Launcher!AdapterSpec
=============================================================================
