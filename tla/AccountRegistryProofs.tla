------------------------ MODULE AccountRegistryProofs ------------------------
(***************************************************************************)
(* Proofs about the account registry: the keyring and the accounts table   *)
(* agree, and an order that is live keeps its account unless the kill      *)
(* switch called it cancelled without the exchange's word, for any number  *)
(* of accounts, requests and faults.                                       *)
(***************************************************************************)
EXTENDS AccountRegistry, TLAPS

-----------------------------------------------------------------------------
(* The secrets of an account *)

\* The references of two accounts are different (_keyring_username).
LEMMA SecretsDisjoint ==
    ASSUME NEW a, NEW b, a # b
    PROVE  Secrets(a) \cap Secrets(b) = {}
  BY DEF Secrets

\* The secrets of an account are named by the account and the field.
LEMMA SecretsTyped ==
    ASSUME NEW a \in Accounts
    PROVE  /\ Secrets(a) \subseteq Accounts \X Fields
           /\ <<a, "api_key">> \in Secrets(a)
  BY DEF Secrets, Fields

-----------------------------------------------------------------------------
(* The inductive invariant *)

\* An account is added once: before its insert, and in its cleanup, it has no row and
\* no reference; while it is being removed it has no row.
StageInv ==
    \A a \in Accounts :
        /\ lock[a] # "none" => adding[a] = "done" /\ a \notin removing
        /\ a \in refs \/ a \in removing => adding[a] = "done"

\* The row of a request before and after it is sent, and what the account still has.
RequestInv ==
    \A r \in Requests :
        /\ req[r].pc \in {"broker", "post"} => orders[r] = "NEW"
        /\ req[r].pc = "post" => HasCredentials(req[r].account)

\* The kill switch cancels rows only while it holds the account's lock, so that no
\* request of the account is between its row and its answer.
LockInv ==
    \A r \in Requests : kill[req[r].account].pc = "cancel" => req[r].pc \in {"idle", "done"}

AInv == /\ TypeOK /\ StageInv /\ CredentialsPresent /\ SecretsSwept
        /\ LockInv /\ RequestInv /\ LiveOrderReachable

\* The steps of the kill switch that touch no row.
KillStep(a) == CloseAllPositions(a) \/ CloseOne(a) \/ CancelsDone(a) \/ CloseEnd(a)

\* The actions of one account and of one request.
AccountStep(a) ==
    \/ AddAccount(a) \/ InsertAccount(a) \/ AddCleanup(a)
    \/ RemoveAccount(a) \/ RemoveCleanup(a)
    \/ EnableRealTrading(a) \/ DisableRealTrading(a) \/ DisableNext(a)
    \/ SetRiskPolicy(a) \/ CreateAlert(a) \/ DeleteAlert(a) \/ MaybeTrigger(a) \/ SettlePending(a)
    \/ KillStep(a)

RequestStep(r) ==
    \/ GetAccount(r) \/ IsReal(r) \/ GetPolicy(r) \/ InsertOrder(r) \/ SignRequest(r)
    \/ PostOrder(r) \/ ExchangeStep(r) \/ SyncOrder(r)
    \/ CancelOne(r) \/ CancelLocally(r) \/ CloseSell(r)

-----------------------------------------------------------------------------
(* Type correctness *)

\* A fault is counted within its bound.
LEMMA FaultTyped ==
    ASSUME faults \in 0 .. MaxFaults, Fault
    PROVE  faults' \in 0 .. MaxFaults
  BY BoundAssumption DEF Fault

\* Deleting secrets only takes some from the keyring.
LEMMA DeleteTyped ==
    ASSUME TypeOK, NEW a \in Accounts, DeleteSecrets(a)
    PROVE  /\ keyring' \subseteq keyring
           /\ faults' \in 0 .. MaxFaults
           /\ lost' \in BOOLEAN
  <1>1. CASE keyring' = keyring \ Secrets(a) /\ UNCHANGED <<faults, lost>>
    BY <1>1 DEF TypeOK
  <1>2. CASE Fault /\ lost' = TRUE /\ \E left \in SUBSET Secrets(a) : keyring' = keyring \ left
    BY <1>2, FaultTyped DEF TypeOK
  <1> QED BY <1>1, <1>2 DEF DeleteSecrets

\* What a sent order leaves in its row and at the exchange: a row of an order that is
\* live or on its way is open.
LEMMA PostOutcome ==
    ASSUME NEW r \in Requests, PostOrder(r)
    PROVE  \E o \in OrderStatuses, b \in {"none", "inflight", "live", "over"} :
              /\ b \in {"inflight", "live"} => o \in _ACTIVE_ORDER_STATUSES
              /\ orders' = [orders EXCEPT ![r] = o]
              /\ book' = [book EXCEPT ![r] = b]
  <1>1. PICK outcome \in {<<"NEW", "live">>, <<"UNKNOWN", "live">>, <<"UNKNOWN", "inflight">>,
                         <<"UNKNOWN", "none">>, <<"final", "over">>} :
          /\ orders' = [orders EXCEPT ![r] = outcome[1]]
          /\ book' = [book EXCEPT ![r] = outcome[2]]
    BY DEF PostOrder
  <1>2. /\ outcome[1] \in OrderStatuses
        /\ outcome[2] \in {"none", "inflight", "live", "over"}
        /\ outcome[2] \in {"inflight", "live"} => outcome[1] \in _ACTIVE_ORDER_STATUSES
    BY <1>1 DEF OrderStatuses, _ACTIVE_ORDER_STATUSES
  <1> QED BY <1>1, <1>2

\* What disable_real_trading for all accounts has left to do is a set of accounts.
LEMMA StopTyped ==
    ASSUME stop \in [running : BOOLEAN, todo : SUBSET Accounts]
    PROVE  /\ NoStop \in [running : BOOLEAN, todo : SUBSET Accounts]
           /\ \A a : [stop EXCEPT !.todo = stop.todo \ {a}] \in [running : BOOLEAN, todo : SUBSET Accounts]
           /\ \A S \in SUBSET Accounts :
                [running |-> TRUE, todo |-> S] \in [running : BOOLEAN, todo : SUBSET Accounts]
  BY DEF NoStop

\* Every step keeps the types of the tables and of the coroutines.
LEMMA TypeStep ==
    ASSUME TypeOK, [Next]_vars
    PROVE  TypeOK'
  <1> USE DEF TypeOK
  <1>1. ASSUME NEW a \in Accounts, AccountStep(a) PROVE TypeOK'
    <2>1. CASE AddAccount(a)
      <3>1. CASE UNCHANGED <<keyring, faults, lost>>
        BY <2>1, <3>1 DEF AddAccount, depVars, reqVars, killVars
      <3>2. ASSUME NEW ok \in BOOLEAN, Encrypt(a, ok)
            PROVE  keyring' \subseteq Accounts \X Fields /\ faults' \in 0 .. MaxFaults /\ lost' \in BOOLEAN
        BY <3>2, SecretsTyped, FaultTyped DEF Encrypt
      <3> QED BY <2>1, <3>1, <3>2 DEF AddAccount, depVars, reqVars, killVars
    <2>2. CASE InsertAccount(a)
      BY <2>2, FaultTyped DEF InsertAccount, depVars, reqVars, killVars
    <2>3. CASE AddCleanup(a)
      BY <2>3, DeleteTyped DEF AddCleanup, depVars, reqVars, killVars
    <2>4. CASE RemoveAccount(a)
      BY <2>4 DEF RemoveAccount, depVars, reqVars, killVars
    <2>5. CASE RemoveCleanup(a)
      BY <2>5, DeleteTyped DEF RemoveCleanup, depVars, reqVars, killVars
    <2>6. CASE EnableRealTrading(a) \/ DisableRealTrading(a)
      BY <2>6 DEF EnableRealTrading, DisableRealTrading, depVars, reqVars, killVars
    <2>7. CASE DisableNext(a)
      <3>1. stop' \in [running : BOOLEAN, todo : SUBSET Accounts]
        BY <2>7, StopTyped DEF DisableNext
      <3>2. lock' \in [Accounts -> {"none", "paper", "real"}]
        BY <2>7 DEF DisableNext
      <3> QED BY <2>7, <3>1, <3>2 DEF DisableNext, depVars, reqVars, killVars
    <2>8. CASE SetRiskPolicy(a) \/ CreateAlert(a) \/ DeleteAlert(a) \/ MaybeTrigger(a) \/ SettlePending(a)
      BY <2>8 DEF SetRiskPolicy, CreateAlert, DeleteAlert, MaybeTrigger, SettlePending, regVars, reqVars, killVars
    <2>9. CASE KillStep(a)
      <3>1. kill' \in [Accounts -> [pc : {"idle", "wait", "cancel", "sell"}, mode : {"paper", "real"}]]
        BY <1>1, <2>9 DEF KillStep, CloseAllPositions, CloseOne, CancelsDone, CloseEnd, NoKill
      <3> QED BY <2>9, <3>1 DEF KillStep, CloseAllPositions, CloseOne, CancelsDone, CloseEnd,
                                regVars, depVars, reqVars
    <2> QED BY <1>1, <2>1, <2>2, <2>3, <2>4, <2>5, <2>6, <2>7, <2>8, <2>9 DEF AccountStep
  <1>2. ASSUME NEW r \in Requests, RequestStep(r) PROVE TypeOK'
    <2>1. CASE GetAccount(r) \/ IsReal(r) \/ GetPolicy(r)
      <3>1. \E l \in {"real", "policy", "insert", "done"} : Goto(r, l)
        BY <2>1 DEF GetAccount, IsReal, GetPolicy
      <3>2. req' \in [Requests -> [pc : {"idle", "real", "policy", "insert", "broker", "post", "done"},
                                   account : Accounts]]
        BY <1>2, <3>1 DEF Goto
      <3> QED BY <2>1, <3>2 DEF GetAccount, IsReal, GetPolicy, regVars, depVars, killVars
    <2>2. CASE InsertOrder(r)
      BY <1>2, <2>2 DEF InsertOrder, Goto, OrderStatuses, _ACTIVE_ORDER_STATUSES, regVars, depVars, killVars
    <2>3. CASE SignRequest(r)
      <3>1. orders' \in [Requests -> OrderStatuses]
        BY <1>2, <2>3 DEF SignRequest, OrderStatuses, _ACTIVE_ORDER_STATUSES
      <3>2. req' \in [Requests -> [pc : {"idle", "real", "policy", "insert", "broker", "post", "done"},
                                   account : Accounts]]
        BY <1>2, <2>3 DEF SignRequest, Goto
      <3> QED BY <2>3, <3>1, <3>2 DEF SignRequest, regVars, depVars, killVars
    <2>4. CASE PostOrder(r)
      <3>1. PICK o \in OrderStatuses, b \in {"none", "inflight", "live", "over"} :
              orders' = [orders EXCEPT ![r] = o] /\ book' = [book EXCEPT ![r] = b]
        BY <1>2, <2>4, PostOutcome
      <3>2. req' \in [Requests -> [pc : {"idle", "real", "policy", "insert", "broker", "post", "done"},
                                   account : Accounts]]
        BY <1>2, <2>4 DEF PostOrder, Goto
      <3>3. orders' \in [Requests -> OrderStatuses] /\ book' \in [Requests -> {"none", "inflight", "live", "over"}]
        BY <1>2, <3>1
      <3> QED BY <2>4, <3>2, <3>3 DEF PostOrder, regVars, depVars, killVars
    <2>5. CASE ExchangeStep(r)
      BY <1>2, <2>5 DEF ExchangeStep, regVars, depVars, killVars
    <2>6. CASE SyncOrder(r)
      BY <1>2, <2>6 DEF SyncOrder, OrderStatuses, _ACTIVE_ORDER_STATUSES, regVars, depVars, killVars
    <2>7. CASE CancelOne(r)
      <3>1. orders' \in [Requests -> OrderStatuses] /\ book' \in [Requests -> {"none", "inflight", "live", "over"}]
        BY <1>2, <2>7 DEF CancelOne, OrderStatuses, _ACTIVE_ORDER_STATUSES
      <3> QED BY <1>2, <2>7, <3>1 DEF CancelOne, regVars, depVars
    <2>8. CASE CancelLocally(r)
      BY <1>2, <2>8 DEF CancelLocally, OrderStatuses, regVars, depVars
    <2>9. CASE CloseSell(r)
      BY <1>2, <2>9 DEF CloseSell, Goto, regVars, depVars, killVars
    <2> QED BY <1>2, <2>1, <2>2, <2>3, <2>4, <2>5, <2>6, <2>7, <2>8, <2>9 DEF RequestStep
  <1>3. CASE DisableAll \/ DisableAllDone
    <2>1. stop' \in [running : BOOLEAN, todo : SUBSET Accounts]
      <3>1. {a \in Accounts : lock[a] # "none"} \in SUBSET Accounts
        OBVIOUS
      <3> QED BY <1>3, <3>1, StopTyped DEF DisableAll, DisableAllDone
    <2> QED BY <1>3, <2>1 DEF DisableAll, DisableAllDone, regVars, depVars, reqVars, killVars
  <1>4. CASE Crash
    <2>1. req' \in [Requests -> [pc : {"idle", "real", "policy", "insert", "broker", "post", "done"},
                                 account : Accounts]]
      BY <1>4 DEF Crash
    <2>2. book' \in [Requests -> {"none", "inflight", "live", "over"}]
      BY <1>4 DEF Crash
    <2>3. kill' \in [Accounts -> [pc : {"idle", "wait", "cancel", "sell"}, mode : {"paper", "real"}]]
      BY <1>4 DEF Crash, NoKill
    <2>4. adding' \in [Accounts -> {"idle", "insert", "cleanup", "done"}] /\ removing' \subseteq Accounts
      BY <1>4 DEF Crash
    <2>5. /\ stop' \in [running : BOOLEAN, todo : SUBSET Accounts]
          /\ faults' \in 0 .. MaxFaults /\ lost' \in BOOLEAN
      BY <1>4, FaultTyped, StopTyped DEF Crash
    <2>6. UNCHANGED <<lock, refs, keyring, policy, alerts, pending, orders, unverified>>
      BY <1>4 DEF Crash, depVars
    <2> QED BY <2>1, <2>2, <2>3, <2>4, <2>5, <2>6
  <1>5. CASE UNCHANGED vars
    BY <1>5 DEF vars, regVars, depVars, reqVars, killVars
  <1> QED BY <1>1, <1>2, <1>3, <1>4, <1>5 DEF Next, AccountStep, RequestStep, KillStep

-----------------------------------------------------------------------------
(* The stages of an account *)

\* add_account runs once per id, and the row goes before the cleanup starts.
LEMMA StageStep ==
    ASSUME TypeOK, StageInv, [Next]_vars
    PROVE  StageInv'
  <1> USE DEF TypeOK, StageInv
  <1>1. ASSUME NEW a \in Accounts, AccountStep(a) PROVE StageInv'
    <2>1. CASE AddAccount(a)
      BY <1>1, <2>1 DEF AddAccount
    <2>2. CASE InsertAccount(a)
      BY <1>1, <2>2 DEF InsertAccount
    <2>3. CASE AddCleanup(a)
      BY <1>1, <2>3 DEF AddCleanup
    <2>4. CASE RemoveAccount(a)
      BY <1>1, <2>4 DEF RemoveAccount
    <2>5. CASE RemoveCleanup(a)
      BY <1>1, <2>5 DEF RemoveCleanup
    <2>6. CASE EnableRealTrading(a) \/ DisableRealTrading(a) \/ DisableNext(a)
      BY <1>1, <2>6 DEF EnableRealTrading, DisableRealTrading, DisableNext
    <2>7. CASE SetRiskPolicy(a) \/ CreateAlert(a) \/ DeleteAlert(a) \/ MaybeTrigger(a) \/ SettlePending(a)
      BY <2>7 DEF SetRiskPolicy, CreateAlert, DeleteAlert, MaybeTrigger, SettlePending, regVars
    <2>8. CASE KillStep(a)
      BY <2>8 DEF KillStep, CloseAllPositions, CloseOne, CancelsDone, CloseEnd, regVars
    <2> QED BY <1>1, <2>1, <2>2, <2>3, <2>4, <2>5, <2>6, <2>7, <2>8 DEF AccountStep
  <1>2. ASSUME NEW r \in Requests, RequestStep(r) PROVE StageInv'
    BY <1>2 DEF RequestStep, GetAccount, IsReal, GetPolicy, InsertOrder, SignRequest, PostOrder,
                ExchangeStep, SyncOrder, CancelOne, CancelLocally, CloseSell, regVars
  <1>3. CASE DisableAll \/ DisableAllDone
    BY <1>3 DEF DisableAll, DisableAllDone, regVars
  <1>4. CASE Crash
    BY <1>4 DEF Crash
  <1>5. CASE UNCHANGED vars
    BY <1>5 DEF vars, regVars
  <1> QED BY <1>1, <1>2, <1>3, <1>4, <1>5 DEF Next, AccountStep, RequestStep, KillStep

-----------------------------------------------------------------------------
(* The two stores *)

\* A step that leaves the references and the keyring of an account alone, or takes
\* secrets only where there is no row, keeps its credentials.
LEMMA DeleteKeepsOthers ==
    ASSUME NEW a \in Accounts, NEW b \in Accounts, a # b, DeleteSecrets(a)
    PROVE  /\ Decrypts(b) => Decrypts(b)'
           /\ keyring' \cap Secrets(b) = keyring \cap Secrets(b)
  <1>1. Secrets(a) \cap Secrets(b) = {}
    BY SecretsDisjoint
  <1>2. \E left \in SUBSET Secrets(a) : keyring' = keyring \ left
    BY DEF DeleteSecrets
  <1>3. keyring' \cap Secrets(b) = keyring \cap Secrets(b)
    BY <1>1, <1>2
  <1> QED BY <1>3 DEF Decrypts, Secrets

\* Storing secrets takes none away, and touches no other account.
LEMMA EncryptKeeps ==
    ASSUME NEW a \in Accounts, NEW b \in Accounts, NEW ok \in BOOLEAN, Encrypt(a, ok)
    PROVE  /\ Decrypts(b) => Decrypts(b)'
           /\ a # b => keyring' \cap Secrets(b) = keyring \cap Secrets(b)
           /\ ~ok => lost' \/ UNCHANGED <<keyring, lost>>
           /\ ok => UNCHANGED lost
  <1>1. /\ keyring \subseteq keyring'
        /\ keyring' \subseteq keyring \cup Secrets(a)
    BY SecretsTyped DEF Encrypt
  <1>2. a # b => Secrets(a) \cap Secrets(b) = {}
    BY SecretsDisjoint
  <1>3. a # b => keyring' \cap Secrets(b) = keyring \cap Secrets(b)
    BY <1>1, <1>2
  <1>4. Decrypts(b) => Decrypts(b)'
    BY <1>1 DEF Decrypts, Secrets
  <1> QED BY <1>3, <1>4 DEF Encrypt

\* An account with credentials keeps them, as long as its row stays.
LEMMA CredentialsKept ==
    ASSUME TypeOK, StageInv, [Next]_vars, NEW b \in Accounts, HasCredentials(b)
    PROVE  \/ HasCredentials(b)'
           \/ RemoveAccount(b)
  <1> USE DEF TypeOK, StageInv
  <1>1. ASSUME NEW a \in Accounts, AccountStep(a), ~RemoveAccount(b) PROVE HasCredentials(b)'
    <2>1. CASE AddAccount(a)
      <3>1. Decrypts(b) => Decrypts(b)'
        BY <2>1, EncryptKeeps DEF AddAccount, Decrypts
      <3> QED BY <2>1, <3>1 DEF AddAccount, HasCredentials
    <2>2. CASE InsertAccount(a)
      BY <1>1, <2>2 DEF InsertAccount, HasCredentials, Decrypts
    <2>3. CASE AddCleanup(a)
      BY <1>1, <2>3, DeleteKeepsOthers DEF AddCleanup, HasCredentials
    <2>4. CASE RemoveAccount(a)
      BY <1>1, <2>4 DEF RemoveAccount, HasCredentials, Decrypts
    <2>5. CASE RemoveCleanup(a)
      BY <1>1, <2>5, DeleteKeepsOthers DEF RemoveCleanup, HasCredentials
    <2>6. CASE EnableRealTrading(a) \/ DisableRealTrading(a) \/ DisableNext(a)
      BY <1>1, <2>6 DEF EnableRealTrading, DisableRealTrading, DisableNext, HasCredentials, Decrypts
    <2>7. CASE SetRiskPolicy(a) \/ CreateAlert(a) \/ DeleteAlert(a) \/ MaybeTrigger(a) \/ SettlePending(a)
      BY <2>7 DEF SetRiskPolicy, CreateAlert, DeleteAlert, MaybeTrigger, SettlePending, regVars,
                  HasCredentials, Decrypts
    <2>8. CASE KillStep(a)
      BY <2>8 DEF KillStep, CloseAllPositions, CloseOne, CancelsDone, CloseEnd, regVars, HasCredentials, Decrypts
    <2> QED BY <1>1, <2>1, <2>2, <2>3, <2>4, <2>5, <2>6, <2>7, <2>8 DEF AccountStep
  <1>2. ASSUME NEW r \in Requests, RequestStep(r) PROVE HasCredentials(b)'
    BY <1>2 DEF RequestStep, GetAccount, IsReal, GetPolicy, InsertOrder, SignRequest, PostOrder,
                ExchangeStep, SyncOrder, CancelOne, CancelLocally, CloseSell, regVars, HasCredentials, Decrypts
  <1>3. CASE DisableAll \/ DisableAllDone
    BY <1>3 DEF DisableAll, DisableAllDone, regVars, HasCredentials, Decrypts
  <1>4. CASE Crash
    BY <1>4 DEF Crash, HasCredentials, Decrypts
  <1>5. CASE UNCHANGED vars
    BY <1>5 DEF vars, regVars, HasCredentials, Decrypts
  <1> QED BY <1>1, <1>2, <1>3, <1>4, <1>5 DEF Next, AccountStep, RequestStep, KillStep

\* A row appears only by the insert of its account, and a reference only with it.
LEMMA RowChanges ==
    ASSUME TypeOK, StageInv, [Next]_vars, NEW b \in Accounts,
           lock'[b] # "none", b \in refs', ~(lock[b] # "none" /\ b \in refs)
    PROVE  InsertAccount(b) /\ lock[b] = "none"
  <1> USE DEF TypeOK, StageInv
  <1>1. ASSUME NEW a \in Accounts, AccountStep(a) PROVE InsertAccount(b) /\ lock[b] = "none"
    <2>1. CASE InsertAccount(a)
      <3>1. a = b
        BY <2>1 DEF InsertAccount
      <3>2. lock[b] = "none"
        BY <2>1, <3>1 DEF InsertAccount
      <3> QED BY <2>1, <3>1, <3>2
    <2>2. CASE ~InsertAccount(a)
      BY <1>1, <2>2 DEF AccountStep, AddAccount, AddCleanup, RemoveAccount, RemoveCleanup,
           EnableRealTrading, DisableRealTrading, DisableNext, SetRiskPolicy, CreateAlert,
           DeleteAlert, MaybeTrigger, SettlePending, KillStep, CloseAllPositions, CloseOne,
           CancelsDone, CloseEnd, regVars
    <2> QED BY <2>1, <2>2
  <1>2. ASSUME NEW r \in Requests, RequestStep(r) PROVE FALSE
    BY <1>2 DEF RequestStep, GetAccount, IsReal, GetPolicy, InsertOrder, SignRequest, PostOrder,
                ExchangeStep, SyncOrder, CancelOne, CancelLocally, CloseSell, regVars
  <1>3. ~(DisableAll \/ DisableAllDone \/ Crash \/ UNCHANGED vars)
    BY DEF DisableAll, DisableAllDone, Crash, vars, regVars
  <1> QED BY <1>1, <1>2, <1>3 DEF Next, AccountStep, RequestStep, KillStep

\* A cleanup that the keyring lets through leaves nothing of the account.
LEMMA DeleteSweeps ==
    ASSUME NEW a \in Accounts, NEW b \in Accounts, DeleteSecrets(a), ~lost'
    PROVE  /\ ~lost
           /\ a = b => keyring' \cap Secrets(b) = {}
           /\ a # b => keyring' \cap Secrets(b) = keyring \cap Secrets(b)
  <1>1. keyring' = keyring \ Secrets(a) /\ UNCHANGED lost
    BY DEF DeleteSecrets
  <1>2. a # b => Secrets(a) \cap Secrets(b) = {}
    BY SecretsDisjoint
  <1> QED BY <1>1, <1>2

\* No step leaves a row whose references dangle.
LEMMA CredentialsStep ==
    ASSUME TypeOK, StageInv, CredentialsPresent, [Next]_vars
    PROVE  CredentialsPresent'
  <1> SUFFICES ASSUME NEW b \in Accounts, lock'[b] # "none", b \in refs'
               PROVE  Decrypts(b)'
    BY DEF CredentialsPresent
  <1>1. CASE lock[b] # "none" /\ b \in refs
    <2>1. HasCredentials(b)
      BY <1>1 DEF HasCredentials, CredentialsPresent
    <2>2. ~RemoveAccount(b)
      BY DEF RemoveAccount, TypeOK
    <2> QED BY <2>1, <2>2, CredentialsKept DEF HasCredentials
  <1>2. CASE ~(lock[b] # "none" /\ b \in refs)
    <2>1. InsertAccount(b) /\ lock[b] = "none"
      BY <1>2, RowChanges
    <2>2. b \notin refs
      BY <2>1 DEF InsertAccount, StageInv
    <2> QED BY <2>1, <2>2 DEF InsertAccount, Decrypts
  <1> QED BY <1>1, <1>2

\* Outside a crash and a failing keyring, secrets are stored by add_account and stay
\* only with a row or with a cleanup that is still to come.
LEMMA SweptStep ==
    ASSUME TypeOK, StageInv, SecretsSwept, [Next]_vars
    PROVE  SecretsSwept'
  <1> SUFFICES ASSUME ~lost', NEW b \in Accounts, keyring' \cap Secrets(b) # {}
               PROVE  lock'[b] # "none" \/ adding'[b] \in {"insert", "cleanup"} \/ b \in removing'
    BY DEF SecretsSwept, Secrets
  <1> DEFINE Kept(S, l, d, m) ==
        S \cap Secrets(b) # {} => l[b] # "none" \/ d[b] \in {"insert", "cleanup"} \/ b \in m
  <1>0. ~lost => Kept(keyring, lock, adding, removing)
    BY DEF SecretsSwept
  <1> USE DEF TypeOK
  <1>1. ASSUME NEW a \in Accounts, AccountStep(a)
        PROVE  Kept(keyring', lock', adding', removing')
    <2>1. CASE AddAccount(a)
      <3>1. CASE adding' = [adding EXCEPT ![a] = "insert"] /\ UNCHANGED <<keyring, faults, lost>>
        BY <1>0, <2>1, <3>1 DEF AddAccount
      <3>2. ASSUME NEW ok \in BOOLEAN, Encrypt(a, ok),
                   adding' = [adding EXCEPT ![a] = IF ok THEN "insert" ELSE "done"]
            PROVE  Kept(keyring', lock', adding', removing')
        <4>1. UNCHANGED lost
          BY <3>2, EncryptKeeps
        <4>2. CASE a = b
          <5>1. CASE ok
            BY <3>2, <4>2, <5>1
          <5>2. CASE ~ok
            <6>1. UNCHANGED keyring
              BY <3>2, <5>2, EncryptKeeps
            <6> QED BY <1>0, <2>1, <4>1, <4>2, <6>1 DEF AddAccount
          <5> QED BY <5>1, <5>2
        <4>3. CASE a # b
          <5>1. keyring' \cap Secrets(b) = keyring \cap Secrets(b)
            BY <3>2, <4>3, EncryptKeeps
          <5> QED BY <1>0, <2>1, <3>2, <4>1, <4>3, <5>1 DEF AddAccount
        <4> QED BY <4>2, <4>3
      <3> QED BY <2>1, <3>1, <3>2 DEF AddAccount
    <2>2. CASE InsertAccount(a)
      BY <1>0, <2>2 DEF InsertAccount
    <2>3. CASE AddCleanup(a)
      BY <1>0, <2>3, DeleteSweeps DEF AddCleanup
    <2>4. CASE RemoveAccount(a)
      BY <1>0, <2>4 DEF RemoveAccount
    <2>5. CASE RemoveCleanup(a)
      BY <1>0, <2>5, DeleteSweeps DEF RemoveCleanup
    <2>6. CASE EnableRealTrading(a) \/ DisableRealTrading(a) \/ DisableNext(a)
      BY <1>0, <2>6 DEF EnableRealTrading, DisableRealTrading, DisableNext
    <2>7. CASE SetRiskPolicy(a) \/ CreateAlert(a) \/ DeleteAlert(a) \/ MaybeTrigger(a) \/ SettlePending(a)
      BY <1>0, <2>7 DEF SetRiskPolicy, CreateAlert, DeleteAlert, MaybeTrigger, SettlePending, regVars
    <2>8. CASE KillStep(a)
      BY <1>0, <2>8 DEF KillStep, CloseAllPositions, CloseOne, CancelsDone, CloseEnd, regVars
    <2> QED BY <1>1, <2>1, <2>2, <2>3, <2>4, <2>5, <2>6, <2>7, <2>8 DEF AccountStep
  <1>2. ASSUME NEW r \in Requests, RequestStep(r) PROVE Kept(keyring', lock', adding', removing')
    BY <1>0, <1>2 DEF RequestStep, GetAccount, IsReal, GetPolicy, InsertOrder, SignRequest, PostOrder,
                ExchangeStep, SyncOrder, CancelOne, CancelLocally, CloseSell, regVars
  <1>3. CASE DisableAll \/ DisableAllDone
    BY <1>0, <1>3 DEF DisableAll, DisableAllDone, regVars
  <1>4. CASE Crash
    BY <1>4 DEF Crash
  <1>5. CASE UNCHANGED vars
    BY <1>0, <1>5 DEF vars, regVars
  <1> QED BY <1>1, <1>2, <1>3, <1>4, <1>5 DEF Next, AccountStep, RequestStep, KillStep

-----------------------------------------------------------------------------
(* The orders of an account *)

\* A step of a request, or a crash, is the only step that touches it.
LEMMA RequestSteps ==
    ASSUME [Next]_vars
    PROVE  \/ UNCHANGED <<reqVars, unverified>>
           \/ \E r \in Requests : RequestStep(r)
           \/ Crash
  BY DEF Next, RequestStep, vars, killVars, AddAccount, InsertAccount, AddCleanup, RemoveAccount,
         RemoveCleanup, EnableRealTrading, DisableRealTrading, DisableNext, SetRiskPolicy,
         CreateAlert, DeleteAlert, MaybeTrigger, SettlePending, KillStep, CloseAllPositions, CloseOne,
         CancelsDone, CloseEnd, DisableAll, DisableAllDone

\* A request never changes its account.
LEMMA RequestAccount ==
    ASSUME TypeOK, [Next]_vars, NEW r \in Requests
    PROVE  req'[r].account = req[r].account
  <1> USE DEF TypeOK
  <1>1. CASE UNCHANGED reqVars
    BY <1>1 DEF reqVars
  <1>2. ASSUME NEW q \in Requests, RequestStep(q) PROVE req'[r].account = req[r].account
    BY <1>2 DEF RequestStep, GetAccount, IsReal, GetPolicy, InsertOrder, SignRequest, PostOrder,
                ExchangeStep, SyncOrder, CancelOne, CancelLocally, CloseSell, Goto
  <1>3. CASE Crash
    BY <1>3 DEF Crash
  <1> QED BY <1>1, <1>2, <1>3, RequestSteps

\* An account with an open order is not removed, so it keeps its credentials.
LEMMA OpenOrderKeeps ==
    ASSUME TypeOK, StageInv, [Next]_vars, NEW r \in Requests,
           orders[r] \in _ACTIVE_ORDER_STATUSES, HasCredentials(req[r].account)
    PROVE  HasCredentials(req[r].account)' /\ req'[r].account = req[r].account
  <1>1. req[r].account \in Accounts
    BY DEF TypeOK
  <1>2. ~RemoveAccount(req[r].account)
    BY DEF RemoveAccount, NotInUse
  <1>3. req'[r].account = req[r].account
    BY RequestAccount
  <1>4. \A b \in Accounts : HasCredentials(b) => HasCredentials(b)' \/ RemoveAccount(b)
    BY CredentialsKept
  <1>5. PICK b \in Accounts : b = req[r].account
    BY <1>1
  <1>6. HasCredentials(b)'
    BY <1>2, <1>4, <1>5
  <1> QED BY <1>3, <1>5, <1>6 DEF HasCredentials, Decrypts


\* A request starts under the lock, or as a sell after the cancellations, and the kill
\* switch takes the lock when no request holds it.
LEMMA LockStep ==
    ASSUME TypeOK, LockInv, [Next]_vars
    PROVE  LockInv'
  <1> SUFFICES ASSUME NEW r \in Requests, kill'[req[r].account].pc = "cancel"
               PROVE  req'[r].pc \in {"idle", "done"}
    BY RequestAccount DEF LockInv
  <1>0. /\ kill[req[r].account].pc = "cancel" => req[r].pc \in {"idle", "done"}
        /\ req[r].account \in Accounts
    BY DEF LockInv, TypeOK
  <1> USE DEF TypeOK
  <1>1. ASSUME NEW a \in Accounts, AccountStep(a) PROVE req'[r].pc \in {"idle", "done"}
    <2>1. CASE KillStep(a)
      <3>0. kill \in [Accounts -> [pc : {"idle", "wait", "cancel", "sell"}, mode : {"paper", "real"}]]
        OBVIOUS
      <3>1. UNCHANGED req
        BY <2>1 DEF KillStep, CloseAllPositions, CloseOne, CancelsDone, CloseEnd, reqVars
      <3>2. CASE CloseAllPositions(a)
        <4>1. kill'[req[r].account].pc = "cancel" => kill[req[r].account].pc = "cancel"
          BY <1>0, <3>0, <3>2 DEF CloseAllPositions
        <4> QED BY <1>0, <3>1, <4>1
      <3>3. CASE CloseOne(a)
        <4>1. CASE req[r].account = a
          <5>1. req[r].pc \in {"idle", "done"}
            BY <3>3, <4>1 DEF CloseOne, LockFree, RequestsOf
          <5> QED BY <3>1, <5>1
        <4>2. CASE req[r].account # a
          <5>1. kill'[req[r].account] = kill[req[r].account]
            BY <1>0, <3>0, <3>3, <4>2 DEF CloseOne
          <5> QED BY <1>0, <3>1, <5>1
        <4> QED BY <4>1, <4>2
      <3>4. CASE CancelsDone(a) \/ CloseEnd(a)
        <4>1. kill'[req[r].account].pc = "cancel" => kill[req[r].account].pc = "cancel"
          <5>1. CASE req[r].account = a
            <6>1. kill'[a].pc \in {"idle", "sell"}
              <7>1. CASE CancelsDone(a)
                <8>1. kill[a] \in [pc : {"idle", "wait", "cancel", "sell"}, mode : {"paper", "real"}]
                  BY <1>1, <3>0
                <8>2. kill'[a] = NoKill \/ kill'[a] = [kill[a] EXCEPT !.pc = "sell"]
                  BY <1>1, <3>0, <7>1 DEF CancelsDone
                <8> QED BY <8>1, <8>2 DEF NoKill
              <7>2. CASE CloseEnd(a)
                BY <1>1, <3>0, <7>2 DEF CloseEnd, NoKill
              <7> QED BY <3>4, <7>1, <7>2
            <6> QED BY <5>1, <6>1
          <5>2. CASE req[r].account # a
            BY <1>0, <3>0, <3>4, <5>2 DEF CancelsDone, CloseEnd
          <5> QED BY <5>1, <5>2
        <4> QED BY <1>0, <3>1, <4>1
      <3> QED BY <2>1, <3>2, <3>3, <3>4 DEF KillStep
    <2>2. CASE ~KillStep(a)
      BY <1>0, <1>1, <2>2 DEF AccountStep, AddAccount, InsertAccount, AddCleanup, RemoveAccount,
           RemoveCleanup, EnableRealTrading, DisableRealTrading, DisableNext, SetRiskPolicy,
           CreateAlert, DeleteAlert, MaybeTrigger, SettlePending, reqVars, killVars
    <2> QED BY <2>1, <2>2
  <1>2. ASSUME NEW q \in Requests, RequestStep(q) PROVE req'[r].pc \in {"idle", "done"}
    <2>1. UNCHANGED kill
      BY <1>2 DEF RequestStep, GetAccount, IsReal, GetPolicy, InsertOrder, SignRequest, PostOrder,
           ExchangeStep, SyncOrder, CancelOne, CancelLocally, CloseSell, killVars
    <2>2. CASE req'[r] = req[r]
      BY <1>0, <2>1, <2>2
    <2>3. CASE req'[r] # req[r]
      <3>1. r = q
        BY <1>2, <2>3 DEF RequestStep, GetAccount, IsReal, GetPolicy, InsertOrder, SignRequest,
             PostOrder, ExchangeStep, SyncOrder, CancelOne, CancelLocally, CloseSell, Goto
      <3>2. req[r].pc \notin {"idle", "done"} \/ kill[req[r].account].pc # "cancel"
        BY <1>2, <2>3, <3>1 DEF RequestStep, GetAccount, IsReal, GetPolicy, InsertOrder, SignRequest,
             PostOrder, ExchangeStep, SyncOrder, CancelOne, CancelLocally, CloseSell, LockFree
      <3> QED BY <1>0, <2>1, <3>2
    <2> QED BY <2>2, <2>3
  <1>3. CASE DisableAll \/ DisableAllDone \/ UNCHANGED vars
    BY <1>0, <1>3 DEF DisableAll, DisableAllDone, vars, reqVars, killVars
  <1>4. CASE Crash
    BY <1>0, <1>4 DEF Crash, NoKill
  <1> QED BY <1>1, <1>2, <1>3, <1>4 DEF Next, AccountStep, RequestStep, KillStep

\* A request between its insert and its answer has an open row, and signs only with
\* credentials that stay until it is sent.
LEMMA RequestInvStep ==
    ASSUME TypeOK, StageInv, LockInv, RequestInv, [Next]_vars
    PROVE  RequestInv'
  <1> SUFFICES ASSUME NEW r \in Requests
               PROVE  /\ req'[r].pc \in {"broker", "post"} => orders'[r] = "NEW"
                      /\ req'[r].pc = "post" => HasCredentials(req[r].account)'
    BY DEF RequestInv
  <1>1. /\ req[r].pc \in {"broker", "post"} => orders[r] = "NEW"
        /\ req[r].pc = "post" => HasCredentials(req[r].account)
    BY DEF RequestInv
  <1>2. req[r].pc = "post" => HasCredentials(req[r].account)'
    BY <1>1, OpenOrderKeeps DEF _ACTIVE_ORDER_STATUSES
  <1> USE DEF TypeOK
  <1>3. CASE UNCHANGED reqVars
    BY <1>1, <1>2, <1>3 DEF reqVars
  <1>4. ASSUME NEW q \in Requests, RequestStep(q)
        PROVE  /\ req'[r].pc \in {"broker", "post"} => orders'[r] = "NEW"
               /\ req'[r].pc = "post" => HasCredentials(req[r].account)'
    <2>1. CASE q # r
      BY <1>1, <1>2, <1>4, <2>1 DEF RequestStep, GetAccount, IsReal, GetPolicy, InsertOrder,
            SignRequest, PostOrder, ExchangeStep, SyncOrder, CancelOne, CancelLocally, CloseSell, Goto
    <2>2. CASE q = r /\ (GetAccount(r) \/ IsReal(r) \/ GetPolicy(r) \/ InsertOrder(r) \/ PostOrder(r))
      BY <2>2 DEF GetAccount, IsReal, GetPolicy, InsertOrder, PostOrder, Goto
    <2>3. CASE q = r /\ SignRequest(r)
      <3>1. CASE HasCredentials(req[r].account)
        <4>1. req[r].pc = "broker" /\ req'[r].account = req[r].account
          BY <2>3 DEF SignRequest, Goto
        <4>2. HasCredentials(req[r].account)'
          BY <1>1, <3>1, <4>1, OpenOrderKeeps DEF _ACTIVE_ORDER_STATUSES
        <4> QED BY <1>1, <2>3, <3>1, <4>1, <4>2 DEF SignRequest
      <3>2. CASE ~HasCredentials(req[r].account)
        BY <2>3, <3>2 DEF SignRequest, Goto
      <3> QED BY <3>1, <3>2
    <2>4. CASE q = r /\ ExchangeStep(r)
      BY <1>1, <1>2, <2>4 DEF ExchangeStep
    <2>5. CASE q = r /\ SyncOrder(r)
      BY <2>5 DEF SyncOrder, LockFree, RequestsOf
    <2>6. CASE q = r /\ (CancelOne(r) \/ CancelLocally(r) \/ CloseSell(r))
      <3>1. req'[r].pc \in {"idle", "done", "insert"}
        BY <2>6 DEF CancelOne, CancelLocally, CloseSell, Goto, LockInv
      <3> QED BY <3>1
    <2> QED BY <1>4, <2>1, <2>2, <2>3, <2>4, <2>5, <2>6 DEF RequestStep
  <1>5. CASE Crash
    BY <1>5 DEF Crash
  <1> QED BY <1>3, <1>4, <1>5, RequestSteps

\* An order becomes live, or goes on its way, only from a request that signed it; from
\* then on its open row keeps the account, until the exchange is done with it or the
\* kill switch marks it.
LEMMA ReachableStep ==
    ASSUME TypeOK, StageInv, RequestInv, LiveOrderReachable, [Next]_vars
    PROVE  LiveOrderReachable'
  <1> SUFFICES ASSUME NEW r \in Requests, r \notin unverified', book'[r] \in {"inflight", "live"}
               PROVE  HasCredentials(req[r].account)' /\ orders'[r] \in _ACTIVE_ORDER_STATUSES
    BY DEF LiveOrderReachable
  <1> USE DEF TypeOK
  <1>1. /\ r \notin unverified
        /\ \/ book[r] \in {"inflight", "live"}
           \/ req[r].pc = "post"
    <2>1. CASE UNCHANGED <<reqVars, unverified>>
      BY <2>1 DEF reqVars
    <2>2. ASSUME NEW q \in Requests, RequestStep(q)
          PROVE  r \notin unverified /\ (book[r] \in {"inflight", "live"} \/ req[r].pc = "post")
      <3>1. CASE PostOrder(q)
        BY <3>1, PostOutcome DEF PostOrder, killVars
      <3>2. CASE ~PostOrder(q)
        BY <2>2, <3>2 DEF RequestStep, GetAccount, IsReal, GetPolicy, InsertOrder, SignRequest,
                          ExchangeStep, SyncOrder, CancelOne, CancelLocally, CloseSell, killVars
      <3> QED BY <3>1, <3>2
    <2>3. CASE Crash
      BY <2>3 DEF Crash
    <2> QED BY <2>1, <2>2, <2>3, RequestSteps
  <1>2. HasCredentials(req[r].account) /\ orders[r] \in _ACTIVE_ORDER_STATUSES
    BY <1>1 DEF LiveOrderReachable, RequestInv, _ACTIVE_ORDER_STATUSES
  <1>3. HasCredentials(req[r].account)'
    BY <1>2, OpenOrderKeeps
  <1>4. orders'[r] \in _ACTIVE_ORDER_STATUSES
    <2>1. CASE UNCHANGED reqVars
      BY <1>2, <2>1 DEF reqVars
    <2>2. ASSUME NEW q \in Requests, RequestStep(q) PROVE orders'[r] \in _ACTIVE_ORDER_STATUSES
      <3>1. CASE PostOrder(q)
        <4>1. PICK o \in OrderStatuses, b \in {"none", "inflight", "live", "over"} :
                /\ b \in {"inflight", "live"} => o \in _ACTIVE_ORDER_STATUSES
                /\ orders' = [orders EXCEPT ![q] = o]
                /\ book' = [book EXCEPT ![q] = b]
          BY <3>1, PostOutcome
        <4> QED BY <1>2, <4>1
      <3>2. CASE SyncOrder(q)
        BY <1>2, <3>2 DEF SyncOrder
      <3>3. CASE CancelOne(q)
        BY <1>2, <3>3 DEF CancelOne, _ACTIVE_ORDER_STATUSES
      <3>4. CASE CancelLocally(q)
        BY <1>2, <3>4 DEF CancelLocally
      <3>5. CASE ~PostOrder(q) /\ ~SyncOrder(q) /\ ~CancelOne(q) /\ ~CancelLocally(q)
        BY <1>2, <2>2, <3>5 DEF RequestStep, GetAccount, IsReal, GetPolicy, InsertOrder, SignRequest,
                          ExchangeStep, CloseSell, _ACTIVE_ORDER_STATUSES
      <3> QED BY <3>1, <3>2, <3>3, <3>4, <3>5
    <2>3. CASE Crash
      BY <1>2, <2>3 DEF Crash
    <2> QED BY <2>1, <2>2, <2>3, RequestSteps
  <1> QED BY <1>3, <1>4

-----------------------------------------------------------------------------
(* The theorems *)

\* The registry starts empty.
LEMMA InitAInv ==
    ASSUME Init
    PROVE  AInv
  <1>1. TypeOK
    <2>1. stop \in [running : BOOLEAN, todo : SUBSET Accounts]
      BY DEF Init, NoStop
    <2>2. faults \in 0 .. MaxFaults
      BY BoundAssumption DEF Init
    <2>3. req \in [Requests -> [pc : {"idle", "real", "policy", "insert", "broker", "post", "done"},
                                account : Accounts]]
      BY DEF Init
    <2> QED BY <2>1, <2>2, <2>3 DEF Init, NoKill, TypeOK, OrderStatuses
  <1>2. StageInv /\ CredentialsPresent /\ SecretsSwept /\ LiveOrderReachable
    BY DEF Init, StageInv, CredentialsPresent, SecretsSwept, LiveOrderReachable
  <1>3. LockInv /\ RequestInv
    BY DEF Init, LockInv, RequestInv
  <1> QED BY <1>1, <1>2, <1>3 DEF AInv

\* The invariant of the account registry: the order in which the keyring, the accounts
\* table and the order rows are written keeps them consistent at every step.
THEOREM RegistryInvariant == Spec => []AInv
  <1>1. Init => AInv
    BY InitAInv
  <1>2. AInv /\ [Next]_vars => AInv'
    BY TypeStep, StageStep, CredentialsStep, SweptStep, LockStep, RequestInvStep, ReachableStep DEF AInv
  <1> QED BY <1>1, <1>2, PTL DEF Spec

\* add_account and remove_account never leave a row whose credentials cannot be read,
\* whatever fails or crashes between the keyring and the database.
THEOREM AccountCredentials == Spec => []CredentialsPresent
  <1>1. AInv => CredentialsPresent
    BY DEF AInv
  <1> QED BY <1>1, RegistryInvariant, PTL

\* add_account and remove_account leave no secret without an account, unless a crash or
\* the keyring kept the cleanup from running.
THEOREM AccountSecrets == Spec => []SecretsSwept
  <1>1. AInv => SecretsSwept
    BY DEF AInv
  <1> QED BY <1>1, RegistryInvariant, PTL

\* remove_account never takes the account of an order that is live or on its way, whose
\* row _insert_order wrote before the request was signed: only the kill switch, which
\* calls an order cancelled without the exchange's word, takes that hold away.
THEOREM AccountOfLiveOrder == Spec => []LiveOrderReachable
  <1>1. AInv => LiveOrderReachable
    BY DEF AInv
  <1> QED BY <1>1, RegistryInvariant, PTL
=============================================================================
