------------------------- MODULE RiskOverrideProofs -------------------------
(***************************************************************************)
(* Machine-checked proofs about RiskOverride, for every set of orders,     *)
(* overrides and policy patches and without a bound on versions, time or   *)
(* crashes.                                                                *)
(***************************************************************************)
EXTENDS RiskOverride, TLAPS

USE PatchAssumption, OrderAssumption, BoundAssumption

RInv == TypeOK /\ ReservedIsCurrent /\ VersionNamesPolicy /\ OverBudgetJustified

Override == [state : OverrideStates, id : Nat, version : Nat, created_at : Nat,
             expires_at : Nat, consumed_by : SUBSET Requests]

\* The policy a patch produces is a policy.
LEMMA MergedType ==
    ASSUME TypeOK, NEW patch \in Patches
    PROVE  Merged(patch) \in Policies
<1>1. /\ patch.caps \in [Caps -> Nat]
      /\ patch.allowed_symbols \in Seq(Symbols)
      /\ policy.caps \in [Caps -> Nat]
      /\ policy.allowed_symbols \in Seq(Symbols)
  BY DEF TypeOK, Policies
<1>2. Merged(patch).caps \in [Caps -> Nat]
  BY <1>1 DEF Merged
<1>3. Merged(patch).allowed_symbols \in Seq(Symbols)
  BY <1>1 DEF Merged
<1> QED
  BY <1>2, <1>3 DEF Merged, Policies

\* Nothing is reserved, no order is under way when the table is empty.
LEMMA InitRInv == Init => RInv
<1> SUFFICES ASSUME Init PROVE RInv
  OBVIOUS
<1>1. NoPolicy \in Policies
  BY DEF NoPolicy, Policies
<1>2. TypeOK
  BY <1>1 DEF Init, TypeOK, NoOverride, NewRequest, OverrideStates
<1>3. ReservedIsCurrent
  BY DEF Init, ReservedIsCurrent, NoOverride
<1>4. VersionNamesPolicy
  BY DEF Init, VersionNamesPolicy, NewRequest
<1>5. OverBudgetJustified
  BY DEF Init, OverBudgetJustified, NewRequest
<1> QED
  BY <1>2, <1>3, <1>4, <1>5 DEF RInv

\* _reconcile_stale_overrides only touches reserved rows, and those it leaves
\* reserved are of the version it keeps.
LEMMA ReconciledRows ==
    ASSUME TypeOK, NEW v \in Nat
    PROVE  /\ Reconciled(v) \in [Overrides -> Override]
           /\ \A k \in Overrides :
                /\ Reconciled(v)[k].state = "reserved" => Reconciled(v)[k].version = v
                /\ overrides[k].state # "reserved" => Reconciled(v)[k] = overrides[k]
<1>1. overrides \in [Overrides -> Override]
  BY DEF TypeOK, Override
<1>2. ASSUME NEW k \in Overrides
      PROVE  /\ Reconciled(v)[k] \in Override
             /\ Reconciled(v)[k].state = "reserved" => Reconciled(v)[k].version = v
             /\ overrides[k].state # "reserved" => Reconciled(v)[k] = overrides[k]
  BY <1>1, <1>2 DEF Reconciled, Override, OverrideStates
<1> QED
  BY <1>2 DEF Reconciled

\* A step that leaves spent overrides alone and moves no order beyond its check
\* keeps every such order justified.
LEMMA JustifiedKept ==
    ASSUME OverBudgetJustified,
           \A r \in Requests : req'[r].pc \in {"insert", "placed"} =>
                /\ req[r].pc \in {"insert", "placed"}
                /\ req'[r].policy = req[r].policy
                /\ req'[r].version = req[r].version,
           \A k \in Overrides : overrides[k].state = "applied" => overrides'[k] = overrides[k]
    PROVE  OverBudgetJustified'
<1> SUFFICES ASSUME NEW r \in Requests, req'[r].pc \in {"insert", "placed"},
                    Exceeds(req'[r].policy, r)
             PROVE  \E k \in Overrides : /\ overrides'[k].state = "applied"
                                         /\ overrides'[k].consumed_by = {r}
                                         /\ overrides'[k].version = req'[r].version
  BY DEF OverBudgetJustified, Exceeds
<1>1. PICK k \in Overrides : /\ overrides[k].state = "applied"
                             /\ overrides[k].consumed_by = {r}
                             /\ overrides[k].version = req[r].version
  BY DEF OverBudgetJustified
<1> QED
  BY <1>1

\* A policy change keeps the invariant: it counts the version up exactly when it
\* changes the policy, and closes what was reserved.
LEMMA SetKeeps ==
    ASSUME RInv, NEW patch \in Patches, SetRiskPolicy(patch)
    PROVE  RInv'
<1> USE DEF RInv
<1>1. Merged(patch) \in Policies /\ version \in Nat /\ version + 1 \in Nat
  BY MergedType DEF TypeOK
<1>2. TypeOK'
  BY <1>1, ReconciledRows DEF SetRiskPolicy, TypeOK, Override
<1>3. CASE version = 0 \/ Merged(patch) # policy
  <2>1. /\ version' = version + 1
        /\ overrides' = Reconciled(version + 1)
        /\ policy' = Merged(patch)
        /\ req' = req
    BY <1>3 DEF SetRiskPolicy
  <2>2. ReservedIsCurrent'
    BY <2>1, <1>1, ReconciledRows DEF ReservedIsCurrent
  <2>3. VersionNamesPolicy'
    <3>1. \A r \in Requests : req[r].version \in Nat
      BY DEF TypeOK
    <3> QED
      BY <3>1, <2>1, <1>1 DEF VersionNamesPolicy
  <2>4. OverBudgetJustified'
    BY <2>1, <1>1, ReconciledRows, JustifiedKept
  <2> QED
    BY <1>2, <2>2, <2>3, <2>4
<1>4. CASE ~(version = 0 \/ Merged(patch) # policy)
  <2>1. UNCHANGED <<version, overrides, policy, req>>
    BY <1>4 DEF SetRiskPolicy
  <2> QED
    BY <1>2, <2>1, JustifiedKept DEF ReservedIsCurrent, VersionNamesPolicy
<1> QED
  BY <1>3, <1>4

\* A new override is granted for the version in force.
LEMMA CreateKeeps ==
    ASSUME RInv, NEW k \in Overrides, NEW now \in Nat, NEW expires_at \in Nat,
           CreateOverride(k, now, expires_at)
    PROVE  RInv'
<1> USE DEF RInv
<1> DEFINE new == [state |-> "reserved", id |-> created, version |-> version,
                   created_at |-> now, expires_at |-> expires_at, consumed_by |-> {}]
<1>1. /\ overrides \in [Overrides -> Override]
      /\ overrides' = [overrides EXCEPT ![k] = new]
      /\ overrides[k].state = "none"
      /\ UNCHANGED <<policy, version, req, clock, crashes>>
      /\ created' = created + 1
  BY DEF CreateOverride, TypeOK, Override
<1>2. new \in Override
  BY DEF TypeOK, Override, OverrideStates
<1>3. TypeOK'
  BY <1>1, <1>2 DEF TypeOK, Override
<1>4. ReservedIsCurrent'
  BY <1>1 DEF ReservedIsCurrent
<1>5. VersionNamesPolicy'
  BY <1>1 DEF VersionNamesPolicy
<1>6. OverBudgetJustified'
  <2>1. \A j \in Overrides : overrides[j].state = "applied" => overrides'[j] = overrides[j]
    BY <1>1
  <2> QED
    BY <2>1, <1>1, JustifiedKept
<1> QED
  BY <1>3, <1>4, <1>5, <1>6

\* The version an order works with and the policy it is checked against are read
\* together; from then on the order keeps both.
LEMMA OrderKeeps ==
    ASSUME RInv, NEW r \in Requests,
           ReadPolicy(r) \/ EnforceCaps(r) \/ ConsumeOverride(r) \/ PlaceOrder(r)
    PROVE  RInv'
<1> USE DEF RInv
<1> DEFINE Request == [pc : {"idle", "check", "consume", "insert", "placed"},
                       policy : Policies, version : Nat, now : Nat]
<1>0. req \in [Requests -> Request] /\ overrides \in [Overrides -> Override]
  BY DEF TypeOK, Override
<1>1. CASE ReadPolicy(r)
  <2> DEFINE new == [pc |-> "check", policy |-> policy, version |-> version, now |-> 0]
  <2>1. /\ req' = [req EXCEPT ![r] = new]
        /\ UNCHANGED <<policy, version, overrides, created, clock, crashes>>
    BY <1>1 DEF ReadPolicy
  <2>2. new \in Request
    BY DEF TypeOK
  <2>3. TypeOK'
    BY <2>1, <2>2 DEF TypeOK
  <2>4. ReservedIsCurrent'
    BY <2>1 DEF ReservedIsCurrent
  <2>5. VersionNamesPolicy'
    BY <2>1, <1>0 DEF VersionNamesPolicy, TypeOK
  <2>6. OverBudgetJustified'
    BY <2>1, <1>0, JustifiedKept
  <2> QED
    BY <2>3, <2>4, <2>5, <2>6
<1>2. CASE EnforceCaps(r)
  <2> DEFINE label == IF Exceeds(req[r].policy, r) THEN "consume" ELSE "insert"
  <2>0. /\ req[r].pc = "check"
        /\ UNCHANGED <<policy, version, overrides, created, clock, crashes>>
        /\ req' = [req EXCEPT ![r].pc = label, ![r].now = clock]
    BY <1>2 DEF EnforceCaps
  <2>1. /\ req[r].pc = "check"
        /\ UNCHANGED <<policy, version, overrides, created, clock, crashes>>
        /\ \A x \in Requests : x # r => req'[x] = req[x]
        /\ req'[r].policy = req[r].policy
        /\ req'[r].version = req[r].version
        /\ req'[r].pc = label
        /\ req' \in [Requests -> Request]
    <3>1. label \in {"consume", "insert"} /\ clock \in Nat
      BY DEF TypeOK
    <3> HIDE DEF label
    <3> QED
      BY <3>1, <2>0, <1>0
  <2>3. TypeOK'
    BY <2>1 DEF TypeOK
  <2>4. ReservedIsCurrent'
    BY <2>1 DEF ReservedIsCurrent
  <2>5. VersionNamesPolicy'
    BY <2>1 DEF VersionNamesPolicy
  <2>6. OverBudgetJustified'
    <3> SUFFICES ASSUME NEW x \in Requests, req'[x].pc \in {"insert", "placed"},
                        Exceeds(req'[x].policy, x)
                 PROVE  \E k \in Overrides : /\ overrides[k].state = "applied"
                                             /\ overrides[k].consumed_by = {x}
                                             /\ overrides[k].version = req'[x].version
      BY <2>1 DEF OverBudgetJustified, Exceeds
    <3>1. x # r
      BY <2>1
    <3> QED
      BY <3>1, <2>1 DEF OverBudgetJustified
  <2> QED
    BY <2>3, <2>4, <2>5, <2>6
<1>3. ASSUME NEW k \in Usable(r), req[r].pc = "consume",
             overrides' = [overrides EXCEPT ![k].state = "applied", ![k].consumed_by = {r}],
             req' = [req EXCEPT ![r].pc = "insert"],
             UNCHANGED <<policy, version, created, clock, crashes>>
      PROVE  RInv'
  <2>1. /\ k \in Overrides
        /\ overrides[k].state = "reserved"
        /\ overrides[k].version = req[r].version
    BY <1>3 DEF Usable
  <2>2. /\ overrides' \in [Overrides -> Override]
        /\ overrides'[k].state = "applied"
        /\ overrides'[k].consumed_by = {r}
        /\ overrides'[k].version = req[r].version
        /\ \A j \in Overrides : j # k => overrides'[j] = overrides[j]
    <3> DEFINE spent == [overrides[k] EXCEPT !.state = "applied", !.consumed_by = {r}]
    <3>1. overrides' = [overrides EXCEPT ![k] = spent]
      BY <1>3, <2>1
    <3>2. overrides \in [Overrides -> Override]
      BY <1>0
    <3>3. overrides[k] \in Override
      BY <3>2, <2>1
    <3>4. spent \in Override
      BY <3>3 DEF Override, OverrideStates
    <3>5. spent.state = "applied" /\ spent.consumed_by = {r} /\ spent.version = overrides[k].version
      BY <3>3 DEF Override
    <3> HIDE DEF spent
    <3> QED
      BY <3>1, <3>2, <3>4, <3>5, <2>1
  <2>3. /\ req' \in [Requests -> Request]
        /\ \A x \in Requests : x # r => req'[x] = req[x]
        /\ req'[r].policy = req[r].policy
        /\ req'[r].version = req[r].version
    BY <1>3, <1>0
  <2>4. TypeOK'
    BY <2>2, <2>3, <1>3 DEF TypeOK, Override
  <2>5. ReservedIsCurrent'
    BY <2>2, <1>3 DEF ReservedIsCurrent
  <2>6. VersionNamesPolicy'
    BY <2>3, <1>3 DEF VersionNamesPolicy
  <2>7. OverBudgetJustified'
    <3> SUFFICES ASSUME NEW x \in Requests, req'[x].pc \in {"insert", "placed"},
                        Exceeds(req'[x].policy, x)
                 PROVE  \E j \in Overrides : /\ overrides'[j].state = "applied"
                                             /\ overrides'[j].consumed_by = {x}
                                             /\ overrides'[j].version = req'[x].version
      BY DEF OverBudgetJustified, Exceeds
    <3>1. CASE x = r
      BY <3>1, <2>1, <2>2, <2>3
    <3>2. CASE x # r
      <4>1. PICK j \in Overrides : /\ overrides[j].state = "applied"
                                   /\ overrides[j].consumed_by = {x}
                                   /\ overrides[j].version = req[x].version
        BY <3>2, <2>3 DEF OverBudgetJustified
      <4>2. overrides'[j] = overrides[j] /\ req'[x] = req[x]
        BY <4>1, <3>2, <2>1, <2>2, <2>3
      <4> QED
        BY <4>1, <4>2
    <3> QED
      BY <3>1, <3>2
  <2> QED
    BY <2>4, <2>5, <2>6, <2>7
<1>4. ASSUME req' = [req EXCEPT ![r] = NewRequest],
             UNCHANGED <<policy, version, overrides, created, clock, crashes>>
      PROVE  RInv'
  <2>1. NewRequest \in Request /\ NewRequest.pc = "idle"
    BY DEF NewRequest, NoPolicy, Policies
  <2>2. TypeOK'
    BY <2>1, <1>4, <1>0 DEF TypeOK
  <2> QED
    BY <2>1, <2>2, <1>4, <1>0, JustifiedKept DEF ReservedIsCurrent, VersionNamesPolicy
<1>5. CASE ConsumeOverride(r)
  BY <1>5, <1>3, <1>4 DEF ConsumeOverride
<1>6. CASE PlaceOrder(r)
  <2>1. /\ req[r].pc = "insert"
        /\ UNCHANGED <<policy, version, overrides, created, clock, crashes>>
        /\ req' \in [Requests -> Request]
        /\ \A x \in Requests : /\ req'[x].policy = req[x].policy
                               /\ req'[x].version = req[x].version
                               /\ req'[x].pc = IF x = r THEN "placed" ELSE req[x].pc
    BY <1>6, <1>0 DEF PlaceOrder
  <2>2. TypeOK'
    BY <2>1 DEF TypeOK
  <2> QED
    BY <2>1, <2>2, JustifiedKept DEF ReservedIsCurrent, VersionNamesPolicy
<1> QED
  BY <1>1, <1>2, <1>5, <1>6

\* A restart forgets the orders under way and closes expired reservations.
LEMMA RestartKeeps ==
    ASSUME RInv, Restart
    PROVE  RInv'
<1> USE DEF RInv
<1>0. NewRequest.pc = "idle" /\ NewRequest.policy \in Policies
      /\ NewRequest.version \in Nat /\ NewRequest.now \in Nat
  BY DEF NewRequest, NoPolicy, Policies
<1>1. \A r \in Requests : req'[r] = NewRequest \/ req'[r] = req[r]
  BY DEF Restart
<1>2. \A k \in Overrides :
        /\ overrides[k].state # "reserved" => overrides'[k] = overrides[k]
        /\ overrides'[k].version = overrides[k].version
        /\ overrides'[k].state = "reserved" => overrides[k].state = "reserved"
  BY DEF Restart, TypeOK
<1>3. overrides' \in [Overrides -> Override]
  <2>1. \A k \in Overrides : overrides[k] \in Override
                             /\ [overrides[k] EXCEPT !.state = "reconciled"] \in Override
    BY DEF TypeOK, Override, OverrideStates
  <2> QED
    BY <2>1 DEF Restart
<1>4. TypeOK'
  <2>1. req' \in [Requests -> [pc : {"idle", "check", "consume", "insert", "placed"},
                               policy : Policies, version : Nat, now : Nat]]
    BY DEF Restart, TypeOK, NewRequest, NoPolicy, Policies
  <2> QED
    <3>1. UNCHANGED <<policy, version, created, clock>> /\ crashes' = crashes + 1
      BY DEF Restart
    <3> QED
      BY <2>1, <3>1, <1>3 DEF TypeOK, Override
<1>5. UNCHANGED <<policy, version>>
  BY DEF Restart
<1>6. ReservedIsCurrent'
  BY <1>2, <1>5 DEF ReservedIsCurrent
<1>7. VersionNamesPolicy'
  BY <1>0, <1>1, <1>5 DEF VersionNamesPolicy
<1>8. OverBudgetJustified'
  BY <1>0, <1>1, <1>2, JustifiedKept
<1> QED
  BY <1>4, <1>6, <1>7, <1>8

\* Every step keeps the invariant.
LEMMA StepRInv == RInv /\ [Next]_vars => RInv'
<1> SUFFICES ASSUME RInv, [Next]_vars PROVE RInv'
  OBVIOUS
<1>1. CASE \E patch \in Patches : SetRiskPolicy(patch)
  BY <1>1, SetKeeps
<1>2. CASE \E k \in Overrides, now \in 0 .. MaxTime, expires_at \in 1 .. MaxTime + 1 :
             CreateOverride(k, now, expires_at)
  <2>1. PICK k \in Overrides, now \in 0 .. MaxTime, expires_at \in 1 .. MaxTime + 1 :
          CreateOverride(k, now, expires_at)
    BY <1>2
  <2>2. now \in Nat /\ expires_at \in Nat
    OBVIOUS
  <2> QED
    BY <2>1, <2>2, CreateKeeps
<1>3. CASE \E r \in Requests :
             ReadPolicy(r) \/ EnforceCaps(r) \/ ConsumeOverride(r) \/ PlaceOrder(r)
  BY <1>3, OrderKeeps
<1>4. CASE Restart
  BY <1>4, RestartKeeps
<1>5. CASE Tick
  <2>1. UNCHANGED <<policy, version, overrides, created, req, crashes>> /\ clock' \in Nat
    BY <1>5 DEF Tick, RInv, TypeOK
  <2>2. TypeOK' /\ ReservedIsCurrent' /\ VersionNamesPolicy'
    BY <2>1 DEF RInv, TypeOK, ReservedIsCurrent, VersionNamesPolicy
  <2> QED
    BY <2>1, <2>2, JustifiedKept DEF RInv
<1>6. CASE UNCHANGED vars
  <2>1. UNCHANGED <<policy, version, overrides, created, req, crashes>> /\ clock' \in Nat
    BY <1>6 DEF vars, RInv, TypeOK
  <2>2. TypeOK' /\ ReservedIsCurrent' /\ VersionNamesPolicy'
    BY <2>1 DEF RInv, TypeOK, ReservedIsCurrent, VersionNamesPolicy
  <2> QED
    BY <2>1, <2>2, JustifiedKept DEF RInv
<1> QED
  BY <1>1, <1>2, <1>3, <1>4, <1>5, <1>6 DEF Next

\* The invariant holds in every reachable state.
THEOREM RInvHolds == Spec => []RInv
<1> QED
  BY InitRInv, StepRInv, PTL DEF Spec

\* No override outlives the policy it was granted for (set_risk_policy closes
\* the reserved rows in the transaction that counts the version up).
THEOREM OverridesCurrent == Spec => []ReservedIsCurrent
<1>1. RInv => ReservedIsCurrent
  BY DEF RInv
<1> QED
  BY <1>1, RInvHolds, PTL

\* The version number an order carries identifies the policy it has read.
THEOREM VersionsFaithful == Spec => []VersionNamesPolicy
<1>1. RInv => VersionNamesPolicy
  BY DEF RInv
<1> QED
  BY <1>1, RInvHolds, PTL

\* Every order that passed beyond its policy has an override spent on it.
THEOREM ExcessJustified == Spec => []OverBudgetJustified
<1>1. RInv => OverBudgetJustified
  BY DEF RInv
<1> QED
  BY <1>1, RInvHolds, PTL

\* What a step does to an override: rows appear, and reserved rows are closed
\* or spent; nothing else happens to them.
LEMMA OverrideSteps ==
    ASSUME RInv, Next, NEW k \in Overrides, overrides[k].state \notin {"none", "reserved"}
    PROVE  overrides'[k] = overrides[k]
<1> USE DEF RInv
<1>1. CASE \E patch \in Patches : SetRiskPolicy(patch)
  <2>1. overrides' = Reconciled(version + 1) \/ overrides' = overrides
    BY <1>1 DEF SetRiskPolicy
  <2>2. version + 1 \in Nat
    BY DEF TypeOK
  <2> QED
    BY <2>1, <2>2, ReconciledRows
<1>2. CASE \E j \in Overrides, now \in 0 .. MaxTime, expires_at \in 1 .. MaxTime + 1 :
             CreateOverride(j, now, expires_at)
  BY <1>2 DEF CreateOverride, TypeOK
<1>3. CASE \E r \in Requests : ReadPolicy(r) \/ EnforceCaps(r) \/ PlaceOrder(r)
  BY <1>3 DEF ReadPolicy, EnforceCaps, PlaceOrder
<1>4. CASE \E r \in Requests : ConsumeOverride(r)
  BY <1>4 DEF ConsumeOverride, Usable, TypeOK
<1>5. CASE Restart
  BY <1>5 DEF Restart
<1>6. CASE Tick
  BY <1>6 DEF Tick
<1> QED
  BY <1>1, <1>2, <1>3, <1>4, <1>5, <1>6 DEF Next

\* A spent or closed override stays as it is for ever.
THEOREM SpentForever == Spec => SpentStays
<1>1. RInv /\ [Next]_vars =>
        [\A k \in Overrides : overrides[k].state \in {"applied", "reconciled"} =>
            overrides'[k] = overrides[k]]_overrides
  BY OverrideSteps DEF vars
<1> QED
  BY <1>1, RInvHolds, PTL DEF Spec, SpentStays

\* consume_override spends an override only while the policy its order was
\* checked against is in force: set_risk_policy may run between the two.
THEOREM SpentInForce == Spec => AppliedInForce
<1> DEFINE Applied(k, r) == /\ overrides[k].state = "reserved"
                            /\ overrides'[k].state = "applied"
                            /\ r \in overrides'[k].consumed_by
<1>1. ASSUME RInv, Next, NEW k \in Overrides, NEW r \in Requests, Applied(k, r)
      PROVE  req[r].policy = policy /\ version' = version
  <2> USE <1>1 DEF RInv
  <2>1. CASE \E x \in Requests : ConsumeOverride(x)
    <3>1. PICK x \in Requests : ConsumeOverride(x)
      BY <2>1
    <3>2. overrides' # overrides
      OBVIOUS
    <3>3. PICK j \in Usable(x) :
            overrides' = [overrides EXCEPT ![j].state = "applied", ![j].consumed_by = {x}]
      BY <3>1, <3>2 DEF ConsumeOverride
    <3>4. j = k /\ x = r
      <4>1. overrides \in [Overrides -> Override]
        BY DEF TypeOK, Override
      <4>2. j = k
        BY <4>1, <3>3 DEF Usable
      <4>3. overrides'[k].consumed_by = {x}
        BY <4>1, <4>2, <3>3 DEF Override
      <4> QED
        BY <4>2, <4>3
    <3>5. overrides[k].version = req[r].version /\ req[r].pc = "consume" /\ version' = version
      BY <3>1, <3>3, <3>4 DEF Usable, ConsumeOverride
    <3> QED
      BY <3>5 DEF ReservedIsCurrent, VersionNamesPolicy
  <2>2. CASE \E patch \in Patches : SetRiskPolicy(patch)
    BY <2>2 DEF SetRiskPolicy, Reconciled, TypeOK
  <2>3. CASE \E j \in Overrides, now \in 0 .. MaxTime, expires_at \in 1 .. MaxTime + 1 :
               CreateOverride(j, now, expires_at)
    BY <2>3 DEF CreateOverride, TypeOK
  <2>4. CASE \E x \in Requests : ReadPolicy(x) \/ EnforceCaps(x) \/ PlaceOrder(x)
    BY <2>4 DEF ReadPolicy, EnforceCaps, PlaceOrder
  <2>5. CASE Restart
    BY <2>5 DEF Restart, TypeOK
  <2>6. CASE Tick
    BY <2>6 DEF Tick
  <2> QED
    BY <1>1, <2>1, <2>2, <2>3, <2>4, <2>5, <2>6 DEF Next
<1>2. RInv /\ [Next]_vars =>
        [\A k \in Overrides, r \in Requests :
          overrides[k].state = "reserved" /\ overrides'[k].state = "applied"
              /\ r \in overrides'[k].consumed_by =>
            req[r].policy = policy /\ version' = version]_overrides
  BY <1>1 DEF vars
<1> QED
  BY <1>2, RInvHolds, PTL DEF Spec, AppliedInForce
=============================================================================
