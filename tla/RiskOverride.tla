---------------------------- MODULE RiskOverride ----------------------------
(***************************************************************************)
(* The risk policy of one account and its one-time overrides               *)
(* (storage/risk_policy.py), with the orders that are held against them    *)
(* (_enforce_caps_or_override of storage/orders.py, risk.py).              *)
(*                                                                         *)
(* The account's lock serializes the orders; set_risk_policy and           *)
(* override_risk_policy do not take it and fall between any two steps of   *)
(* an order.  Every transaction is one action (the single writer queue).   *)
(***************************************************************************)
EXTENDS Naturals, Sequences

CONSTANTS
    Requests,       \* orders, by idempotency key
    Overrides,      \* overrides, by idempotency key
    Symbols,
    Patches,        \* the calls of set_risk_policy
    SymbolOf,       \* symbol of an order
    Need,           \* what an order needs of each cap
    MaxVersion,     \* bound: policy versions
    MaxTime,        \* bound: the clock
    MaxCrashes      \* bound: daemon crashes

Caps == {"max_notional_per_order", "max_aggregate_exposure"}

\* A call clears fields and sets fields; 0 and <<>> stand for an omitted field.
ASSUME PatchAssumption ==
    Patches \subseteq [clear : SUBSET (Caps \cup {"allowed_symbols"}),
                       caps : [Caps -> Nat], allowed_symbols : Seq(Symbols)]
ASSUME OrderAssumption == /\ SymbolOf \in [Requests -> Symbols]
                          /\ Need \in [Requests -> [Caps -> Nat]]
ASSUME BoundAssumption == MaxVersion \in Nat /\ MaxTime \in Nat /\ MaxCrashes \in Nat

VARIABLES
    policy,     \* the row of risk_policy; 0 and <<>> stand for NULL and []
    version,    \* policy_version, 0 without a row
    overrides,  \* rows of risk_override
    created,    \* overrides created so far: the id of the next row
    req,        \* the orders
    clock,
    crashes

vars == <<policy, version, overrides, created, req, clock, crashes>>

-----------------------------------------------------------------------------

Policies == [caps : [Caps -> Nat], allowed_symbols : Seq(Symbols)]
NoPolicy == [caps |-> [c \in Caps |-> 0], allowed_symbols |-> <<>>]

\* enforce_policy_caps raises SYMBOL_NOT_ALLOWED or RISK_LIMIT_EXCEEDED.
Exceeds(p, r) ==
    \/ /\ p.allowed_symbols # <<>>
       /\ \A i \in DOMAIN p.allowed_symbols : p.allowed_symbols[i] # SymbolOf[r]
    \/ \E c \in Caps : p.caps[c] # 0 /\ Need[r][c] > p.caps[c]

OverrideStates == {"none", "reserved", "applied", "reconciled"}

NoOverride == [state |-> "none", id |-> 0, version |-> 0, created_at |-> 0, expires_at |-> 0,
               consumed_by |-> {}]
NewRequest == [pc |-> "idle", policy |-> NoPolicy, version |-> 0, now |-> 0]

TypeOK ==
    /\ policy \in Policies
    /\ version \in Nat
    /\ overrides \in [Overrides -> [state : OverrideStates, id : Nat, version : Nat,
                                    created_at : Nat, expires_at : Nat, consumed_by : SUBSET Requests]]
    /\ created \in Nat
    /\ req \in [Requests -> [pc : {"idle", "check", "consume", "insert", "placed"},
                             policy : Policies, version : Nat, now : Nat]]
    /\ clock \in Nat
    /\ crashes \in Nat

Init ==
    /\ policy = NoPolicy
    /\ version = 0
    /\ overrides = [k \in Overrides |-> NoOverride]
    /\ created = 0
    /\ req = [r \in Requests |-> NewRequest]
    /\ clock = 0
    /\ crashes = 0

-----------------------------------------------------------------------------
(* Policy and overrides *)

\* Mutant: the version before is kept too.
ReconciledTooOld(keep_version) ==
    [k \in Overrides |->
        IF overrides[k].state = "reserved" /\ overrides[k].version + 1 < keep_version
          THEN [overrides[k] EXCEPT !.state = "reconciled"]
          ELSE overrides[k]]

\* _reconcile_stale_overrides: reserved overrides of another version are closed.
Reconciled(keep_version) ==
    [k \in Overrides |->
        IF overrides[k].state = "reserved" /\ overrides[k].version # keep_version
          THEN [overrides[k] EXCEPT !.state = "reconciled"]
          ELSE overrides[k]]

\* The patch of set_risk_policy: a cleared field is unset, an omitted one keeps
\* its value.
Merged(patch) ==
    [caps |-> [c \in Caps |-> IF c \in patch.clear THEN 0
                              ELSE IF patch.caps[c] # 0 THEN patch.caps[c]
                              ELSE policy.caps[c]],
     allowed_symbols |-> IF "allowed_symbols" \in patch.clear THEN <<>>
                         ELSE IF patch.allowed_symbols # <<>> THEN patch.allowed_symbols
                         ELSE policy.allowed_symbols]

\* Mutant: a change of the symbols does not count.
SetRiskPolicyCapsOnly(patch) ==
    LET merged == Merged(patch)
        changed == version = 0 \/ merged.caps # policy.caps
    IN  /\ version < MaxVersion
        /\ policy' = merged
        /\ version' = IF changed THEN version + 1 ELSE version
        /\ overrides' = IF changed THEN Reconciled(version + 1) ELSE overrides
        /\ UNCHANGED <<created, req, clock, crashes>>

\* set_risk_policy: the first call inserts version 1; later ones count the
\* version up, and close what was reserved under the old one, if they change
\* the policy (a permuted list of symbols is a change).
SetRiskPolicy(patch) ==
    LET merged == Merged(patch)
        changed == version = 0 \/ merged # policy
    IN  /\ version < MaxVersion
        /\ policy' = merged
        /\ version' = IF changed THEN version + 1 ELSE version
        /\ overrides' = IF changed THEN Reconciled(version + 1) ELSE overrides
        /\ UNCHANGED <<created, req, clock, crashes>>

\* create_override: a key that exists is answered with its row.  The clock was
\* read, and expires_at checked, before the transaction got its turn.
CreateOverride(k, now, expires_at) ==
    /\ now <= clock
    /\ expires_at > now
    /\ overrides[k].state = "none"
    /\ overrides' = [overrides EXCEPT ![k] =
                        [state |-> "reserved", id |-> created, version |-> version,
                         created_at |-> now, expires_at |-> expires_at, consumed_by |-> {}]]
    /\ created' = created + 1
    /\ UNCHANGED <<policy, version, req, clock, crashes>>

-----------------------------------------------------------------------------
(* Orders *)

Busy == {r \in Requests : req[r].pc \in {"check", "consume", "insert"}}

\* An order, or its retry, gets the account's lock and reads the policy.
ReadPolicy(r) ==
    /\ Busy = {}
    /\ req[r].pc = "idle"
    /\ req' = [req EXCEPT ![r] = [pc |-> "check", policy |-> policy, version |-> version,
                                  now |-> 0]]
    /\ UNCHANGED <<policy, version, overrides, created, clock, crashes>>

\* _enforce_caps_or_override: within the policy that was read, or consume_override,
\* which reads the clock before its transaction.
EnforceCaps(r) ==
    /\ req[r].pc = "check"
    /\ req' = [req EXCEPT ![r].pc = IF Exceeds(req[r].policy, r) THEN "consume" ELSE "insert",
                          ![r].now = clock]
    /\ UNCHANGED <<policy, version, overrides, created, clock, crashes>>

\* Mutant: the version is not compared.
UsableAnyVersion(r) ==
    {k \in Overrides : /\ overrides[k].state = "reserved"
                       /\ overrides[k].expires_at > req[r].now}

\* Mutant: the state is not compared.
UsableAnyState(r) ==
    {k \in Overrides : /\ overrides[k].state # "none"
                       /\ overrides[k].version = req[r].version
                       /\ overrides[k].expires_at > req[r].now}

\* The rows consume_override may take: reserved, of the caller's version, not expired.
Usable(r) ==
    {k \in Overrides : /\ overrides[k].state = "reserved"
                       /\ overrides[k].version = req[r].version
                       /\ overrides[k].expires_at > req[r].now}

\* ORDER BY created_at ASC, id ASC
Before(k, j) ==
    \/ overrides[k].created_at < overrides[j].created_at
    \/ overrides[k].created_at = overrides[j].created_at /\ overrides[k].id <= overrides[j].id

\* consume_override: the oldest usable one is applied, or the order is refused
\* (and may be retried).
ConsumeOverride(r) ==
    /\ req[r].pc = "consume"
    /\ \/ \E k \in Usable(r) :
            /\ \A j \in Usable(r) : Before(k, j)
            /\ overrides' = [overrides EXCEPT ![k].state = "applied", ![k].consumed_by = {r}]
            /\ req' = [req EXCEPT ![r].pc = "insert"]
       \/ /\ Usable(r) = {}
          /\ req' = [req EXCEPT ![r] = NewRequest]
          /\ UNCHANGED overrides
    /\ UNCHANGED <<policy, version, created, clock, crashes>>

\* _place_and_record inserts the order.
PlaceOrder(r) ==
    /\ req[r].pc = "insert"
    /\ req' = [req EXCEPT ![r].pc = "placed"]
    /\ UNCHANGED <<policy, version, overrides, created, clock, crashes>>

\* A crash and the next start: orders under way are gone (their clients may
\* retry them), reconcile_overrides closes what has expired.
Restart ==
    /\ crashes < MaxCrashes
    /\ crashes' = crashes + 1
    /\ req' = [r \in Requests |-> IF r \in Busy THEN NewRequest ELSE req[r]]
    /\ overrides' = [k \in Overrides |->
                        IF overrides[k].state = "reserved" /\ overrides[k].expires_at <= clock
                          THEN [overrides[k] EXCEPT !.state = "reconciled"]
                          ELSE overrides[k]]
    /\ UNCHANGED <<policy, version, created, clock>>

Tick ==
    /\ clock < MaxTime
    /\ clock' = clock + 1
    /\ UNCHANGED <<policy, version, overrides, created, req, crashes>>

-----------------------------------------------------------------------------

Next ==
    \/ \E patch \in Patches : SetRiskPolicy(patch)
    \/ \E k \in Overrides, now \in 0 .. MaxTime, expires_at \in 1 .. MaxTime + 1 :
         CreateOverride(k, now, expires_at)
    \/ \E r \in Requests : ReadPolicy(r) \/ EnforceCaps(r) \/ ConsumeOverride(r) \/ PlaceOrder(r)
    \/ Restart \/ Tick

Spec == Init /\ [][Next]_vars

-----------------------------------------------------------------------------
(* Properties *)

\* An override never outlives the policy it was granted for: what is reserved
\* is bound to the current version, also when a change restores an old policy.
ReservedIsCurrent ==
    \A k \in Overrides : overrides[k].state = "reserved" => overrides[k].version = version

\* A version names one policy: an order that read the current version number
\* has also read the current policy, however long ago it read it.
VersionNamesPolicy ==
    \A r \in Requests : req[r].pc # "idle" =>
        /\ req[r].version <= version
        /\ req[r].version = version => req[r].policy = policy

\* An order beyond the policy it was checked against went through on an override
\* that was spent on it and granted for exactly that policy version.
OverBudgetJustified ==
    \A r \in Requests :
        req[r].pc \in {"insert", "placed"} /\ Exceeds(req[r].policy, r) =>
            \E k \in Overrides : /\ overrides[k].state = "applied"
                                 /\ overrides[k].consumed_by = {r}
                                 /\ overrides[k].version = req[r].version

\* A spent or closed override never changes again: it lets one order through at
\* most, whatever is retried, restarted or reconciled.
SpentStays ==
    [][\A k \in Overrides : overrides[k].state \in {"applied", "reconciled"} =>
            overrides'[k] = overrides[k]]_overrides

\* No override is spent across a policy change: a step that applies one finds the
\* policy its order was checked against still in force.
AppliedInForce ==
    [][\A k \in Overrides, r \in Requests :
          overrides[k].state = "reserved" /\ overrides'[k].state = "applied"
              /\ r \in overrides'[k].consumed_by =>
            req[r].policy = policy /\ version' = version]_overrides
=============================================================================
