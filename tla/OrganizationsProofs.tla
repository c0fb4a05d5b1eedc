---- MODULE OrganizationsProofs ----
(* What the billing of organizations promises for any trial length, any number of
   organizations and subscribe calls, and any time. *)
EXTENDS Organizations, TLAPS

----------------------------------------------------------------------------
(* The inductive invariants. *)

(* The stamp of a paying organization is its first one, but for an overlap. *)
StampsInv ==
    \A o \in Orgs : paidSince[o] # None =>
        /\ organizations[o] # None
        /\ organizations[o].subscriptionStartedAt # None
        /\ o \notin overlapped => organizations[o].subscriptionStartedAt = paidSince[o]

(* The stamp that a subscribe read is the row's, but for an overlap. *)
CallsInv ==
    \A r \in Requests : subscribing[r] # None =>
        LET o == subscribing[r].org
        IN  /\ organizations[o] # None
            /\ o \notin overlapped =>
                    subscribing[r].stamp = organizations[o].subscriptionStartedAt

BillingInv == StampsInv /\ CallsInv

----------------------------------------------------------------------------
(* Days are rounded up: some are left as long as a tick is. *)
LEMMA RoundUpPositive ==
    ASSUME NEW ticks \in Nat \ {0}
    PROVE  RoundUp(ticks) > 0
<1>1. DayLength \in Nat \ {0} /\ ticks + DayLength - 1 >= DayLength
    BY TrialAssumption
<1> QED
    BY <1>1 DEF RoundUp

LEMMA NoneApart == None \notin Row /\ None \notin Call /\ None \notin Nat
    BY NoneAssumption

(* What a step does to a row: it never loses its trial or its stamp. *)
RowKept(o) ==
    /\ organizations[o] \in Row /\ organizations'[o] \in Row
    /\ organizations'[o].trialStartedAt = organizations[o].trialStartedAt
    /\ organizations[o].subscriptionStartedAt # None =>
          organizations'[o].subscriptionStartedAt # None

(* A step that changes one row of those there are, keeping its stamp. *)
RowChanged(o, row) ==
    /\ organizations' = [organizations EXCEPT ![o] = row]
    /\ row \in Row
    /\ row.trialStartedAt = organizations[o].trialStartedAt
    /\ row.subscriptionStartedAt = organizations[o].subscriptionStartedAt
    /\ UNCHANGED <<now, subscribing, paidSince, overlapped>>

LEMMA PlanChanged ==
    ASSUME TypeOK, NEW o \in Orgs, NEW plan \in PlanTiers, setPlan(o, plan)
    PROVE  organizations[o] \in Row /\ \E row : RowChanged(o, row)
<1>1. organizations[o] \in Row
    BY DEF TypeOK, setPlan, Live
<1> DEFINE row == [organizations[o] EXCEPT !.planTier = plan]
<1>2. /\ row \in Row /\ row.trialStartedAt = organizations[o].trialStartedAt
      /\ row.subscriptionStartedAt = organizations[o].subscriptionStartedAt
    BY <1>1 DEF Row
<1>3. organizations' = [organizations EXCEPT ![o] = row]
    BY DEF setPlan, WithPlan
<1> HIDE DEF row
<1> QED
    BY <1>1, <1>2, <1>3 DEF RowChanged, setPlan

LEMMA AddOnChanged ==
    ASSUME TypeOK, NEW o \in Orgs, NEW addOn \in StorageAddOns, setStorageAddOn(o, addOn)
    PROVE  organizations[o] \in Row /\ \E row : RowChanged(o, row)
<1>1. organizations[o] \in Row
    BY DEF TypeOK, setStorageAddOn, Live
<1> DEFINE row == [organizations[o] EXCEPT !.storageAddOn = addOn]
<1>2. /\ row \in Row /\ row.trialStartedAt = organizations[o].trialStartedAt
      /\ row.subscriptionStartedAt = organizations[o].subscriptionStartedAt
    BY <1>1 DEF Row
<1>3. organizations' = [organizations EXCEPT ![o] = row]
    BY DEF setStorageAddOn
<1> HIDE DEF row
<1> QED
    BY <1>1, <1>2, <1>3 DEF RowChanged, setStorageAddOn

LEMMA Deleted ==
    ASSUME TypeOK, NEW o \in Orgs, softDelete(o)
    PROVE  organizations[o] \in Row /\ \E row : RowChanged(o, row)
<1>1. organizations[o] \in Row
    BY DEF TypeOK, softDelete, Live
<1> DEFINE row == [organizations[o] EXCEPT !.deleted = TRUE]
<1>2. /\ row \in Row /\ row.trialStartedAt = organizations[o].trialStartedAt
      /\ row.subscriptionStartedAt = organizations[o].subscriptionStartedAt
    BY <1>1 DEF Row
<1>3. organizations' = [organizations EXCEPT ![o] = row]
    BY DEF softDelete
<1> HIDE DEF row
<1> QED
    BY <1>1, <1>2, <1>3 DEF RowChanged, softDelete

LEMMA Subscribed ==
    ASSUME TypeOK, BillingInv, NEW r \in Requests, Subscribe(r)
    PROVE  LET call == subscribing[r]
               o    == call.org
           IN  /\ call \in Call /\ o \in Orgs /\ organizations[o] \in Row
               /\ organizations' \in [Orgs -> Row \cup {None}]
               /\ organizations'[o] \in Row
               /\ organizations'[o].trialStartedAt = organizations[o].trialStartedAt
               /\ organizations'[o].subscriptionStartedAt = Stamp(call.stamp)
               /\ Stamp(call.stamp) \in Nat
               /\ \A p \in Orgs : p # o => organizations'[p] = organizations[p]
<1> DEFINE call == subscribing[r]
           o    == call.org
<1>1. call \in Call /\ o \in Orgs /\ organizations[o] \in Row /\ call.planTier \in PlanTiers
    BY DEF Subscribe, TypeOK, Call, BillingInv, CallsInv
<1>2. Stamp(call.stamp) \in Nat
    BY <1>1 DEF Stamp, Call, Time, TypeOK
<1> DEFINE row == [organizations[o] EXCEPT !.planTier = call.planTier,
                                           !.subscriptionStartedAt = Stamp(call.stamp)]
<1>3. /\ row \in Row /\ row.trialStartedAt = organizations[o].trialStartedAt
      /\ row.subscriptionStartedAt = Stamp(call.stamp)
    BY <1>1, <1>2 DEF Row, Time
<1>4. organizations' = [organizations EXCEPT ![o] = row]
    BY <1>1 DEF Subscribe, TypeOK
<1> HIDE DEF row
<1> QED
    BY <1>1, <1>2, <1>3, <1>4 DEF TypeOK

LEMMA Loaded ==
    ASSUME TypeOK, NEW r \in Requests, NEW o \in Orgs, NEW plan \in PlanTiers, Load(r, o, plan)
    PROVE  /\ organizations[o] \in Row
           /\ subscribing' \in [Requests -> Call \cup {None}]
           /\ subscribing'[r].org = o
           /\ subscribing'[r].stamp = organizations[o].subscriptionStartedAt
           /\ \A s \in Requests : s # r => subscribing'[s] = subscribing[s]
<1> DEFINE call == [org |-> o, planTier |-> plan, stamp |-> organizations[o].subscriptionStartedAt]
<1>1. organizations[o] \in Row
    BY DEF Load, Live, TypeOK
<1>2. call \in Call /\ call.org = o /\ call.stamp = organizations[o].subscriptionStartedAt
    BY <1>1 DEF Call, Row
<1>3. subscribing' = [subscribing EXCEPT ![r] = call]
    BY DEF Load
<1> HIDE DEF call
<1> QED
    BY <1>1, <1>2, <1>3 DEF TypeOK

LEMMA Created ==
    ASSUME TypeOK, NEW o \in Orgs, Create(o)
    PROVE  /\ organizations[o] = None
           /\ organizations' \in [Orgs -> Row \cup {None}]
           /\ \A p \in Orgs : p # o => organizations'[p] = organizations[p]
           /\ UNCHANGED <<now, subscribing, paidSince, overlapped>>
<1> DEFINE row == [Grandfathered EXCEPT !.trialStartedAt = now]
<1>1. row \in Row
    BY DEF Row, Grandfathered, Time, PlanTiers, StorageAddOns, TypeOK
<1>2. organizations' = [organizations EXCEPT ![o] = row]
    BY DEF Create
<1> HIDE DEF row
<1> QED
    BY <1>1, <1>2 DEF Create, TypeOK

----------------------------------------------------------------------------
(* The steps of the system, as the lemmas below go through them. *)
LEMMA Steps ==
    ASSUME TypeOK, [Next]_vars
    PROVE  \/ Tick
           \/ \E o \in Orgs : Create(o)
           \/ \E o \in Orgs : organizations[o] \in Row /\ \E row : RowChanged(o, row)
           \/ \E r \in Requests, o \in Orgs, plan \in PlanTiers : Load(r, o, plan)
           \/ \E r \in Requests : Subscribe(r)
           \/ UNCHANGED vars
    BY PlanChanged, AddOnChanged, Deleted DEF Next

LEMMA TypeStep ==
    ASSUME TypeOK, BillingInv, [Next]_vars
    PROVE  TypeOK'
<1>1. CASE Tick
    BY <1>1 DEF Tick, TypeOK
<1>2. ASSUME NEW o \in Orgs, Create(o) PROVE TypeOK'
    BY <1>2, Created DEF TypeOK
<1>3. ASSUME NEW o \in Orgs, NEW row, RowChanged(o, row) PROVE TypeOK'
    BY <1>3 DEF RowChanged, TypeOK
<1>4. ASSUME NEW r \in Requests, NEW o \in Orgs, NEW plan \in PlanTiers, Load(r, o, plan)
      PROVE  TypeOK'
    BY <1>4, Loaded DEF Load, TypeOK
<1>5. ASSUME NEW r \in Requests, Subscribe(r) PROVE TypeOK'
    <2>1. /\ organizations' \in [Orgs -> Row \cup {None}]
          /\ subscribing[r].org \in Orgs /\ Stamp(subscribing[r].stamp) \in Nat
        BY <1>5, Subscribed
    <2>2. subscribing' \in [Requests -> Call \cup {None}] /\ now' \in Nat
        BY <1>5 DEF Subscribe, TypeOK
    <2>3. paidSince' \in [Orgs -> Time]
        BY <1>5, <2>1 DEF Subscribe, TypeOK, Time
    <2>4. overlapped' \subseteq Orgs
        BY <1>5, <2>1 DEF Subscribe, TypeOK
    <2> QED
        BY <2>1, <2>2, <2>3, <2>4 DEF TypeOK
<1>6. CASE UNCHANGED vars
    BY <1>6 DEF vars, TypeOK
<1> QED
    BY <1>1, <1>2, <1>3, <1>4, <1>5, <1>6, Steps

LEMMA StampsStep ==
    ASSUME TypeOK, BillingInv, [Next]_vars
    PROVE  StampsInv'
<1>1. CASE Tick
    BY <1>1 DEF Tick, BillingInv, StampsInv
<1>2. ASSUME NEW o \in Orgs, Create(o) PROVE StampsInv'
    BY <1>2, Created DEF BillingInv, StampsInv
<1>3. ASSUME NEW o \in Orgs, NEW row, RowChanged(o, row), organizations[o] \in Row
      PROVE  StampsInv'
    <2>1. /\ organizations'[o] = row /\ row # None
          /\ row.subscriptionStartedAt = organizations[o].subscriptionStartedAt
          /\ \A p \in Orgs : p # o => organizations'[p] = organizations[p]
        BY <1>3, NoneApart DEF RowChanged, TypeOK
    <2>2. UNCHANGED <<paidSince, overlapped>>
        BY <1>3 DEF RowChanged
    <2> QED
        BY <2>1, <2>2 DEF BillingInv, StampsInv
<1>4. ASSUME NEW r \in Requests, NEW o \in Orgs, NEW plan \in PlanTiers, Load(r, o, plan)
      PROVE  StampsInv'
    BY <1>4 DEF Load, BillingInv, StampsInv
<1>5. ASSUME NEW r \in Requests, Subscribe(r) PROVE StampsInv'
    <2> DEFINE call == subscribing[r]
               o    == call.org
    <2>1. /\ o \in Orgs /\ organizations'[o] # None
          /\ organizations'[o].subscriptionStartedAt = Stamp(call.stamp)
          /\ Stamp(call.stamp) # None
          /\ \A p \in Orgs : p # o => organizations'[p] = organizations[p]
        BY <1>5, Subscribed, NoneApart
    <2>2. /\ paidSince'[o] = IF paidSince[o] = None THEN Stamp(call.stamp) ELSE paidSince[o]
          /\ \A p \in Orgs : p # o => paidSince'[p] = paidSince[p]
          /\ overlapped \subseteq overlapped'
        BY <1>5, <2>1 DEF Subscribe, TypeOK
    <2>3. o \notin overlapped => call.stamp = organizations[o].subscriptionStartedAt
        BY <1>5 DEF Subscribe, BillingInv, CallsInv
    <2>4. paidSince[o] # None /\ o \notin overlapped => Stamp(call.stamp) = paidSince[o]
        BY <2>1, <2>3 DEF BillingInv, StampsInv, Stamp
    <2> HIDE DEF call, o
    <2> QED
        BY <2>1, <2>2, <2>4 DEF BillingInv, StampsInv
<1>6. CASE UNCHANGED vars
    BY <1>6 DEF vars, BillingInv, StampsInv
<1> QED
    BY <1>1, <1>2, <1>3, <1>4, <1>5, <1>6, Steps

LEMMA CallsStep ==
    ASSUME TypeOK, BillingInv, [Next]_vars
    PROVE  CallsInv'
<1> USE DEF BillingInv
<1>1. CASE Tick
    BY <1>1 DEF Tick, CallsInv
<1>2. ASSUME NEW o \in Orgs, Create(o) PROVE CallsInv'
    <2>1. \A r \in Requests : subscribing[r] # None =>
              subscribing[r].org # o /\ subscribing[r].org \in Orgs
        BY <1>2, Created DEF CallsInv, TypeOK, Call
    <2> QED
        BY <1>2, <2>1, Created DEF CallsInv
<1>3. ASSUME NEW o \in Orgs, NEW row, RowChanged(o, row), organizations[o] \in Row
      PROVE  CallsInv'
    <2>1. /\ organizations'[o] = row /\ row # None
          /\ row.subscriptionStartedAt = organizations[o].subscriptionStartedAt
          /\ \A p \in Orgs : p # o => organizations'[p] = organizations[p]
        BY <1>3, NoneApart DEF RowChanged, TypeOK
    <2>2. UNCHANGED <<subscribing, overlapped>>
        BY <1>3 DEF RowChanged
    <2>3. \A r \in Requests : subscribing[r] # None => subscribing[r].org \in Orgs
        BY DEF TypeOK, Call
    <2> QED
        BY <2>1, <2>2, <2>3 DEF CallsInv
<1>4. ASSUME NEW r \in Requests, NEW o \in Orgs, NEW plan \in PlanTiers, Load(r, o, plan)
      PROVE  CallsInv'
    <2>1. /\ organizations[o] # None /\ subscribing'[r].org = o
          /\ subscribing'[r].stamp = organizations[o].subscriptionStartedAt
          /\ \A s \in Requests : s # r => subscribing'[s] = subscribing[s]
        BY <1>4, Loaded, NoneApart
    <2>2. UNCHANGED <<organizations, overlapped>>
        BY <1>4 DEF Load
    <2> QED
        BY <2>1, <2>2 DEF CallsInv
<1>5. ASSUME NEW r \in Requests, Subscribe(r) PROVE CallsInv'
    <2> DEFINE o == subscribing[r].org
    <2>1. /\ o \in Orgs /\ organizations'[o] # None
          /\ \A p \in Orgs : p # o => organizations'[p] = organizations[p]
        BY <1>5, Subscribed, NoneApart
    <2>2. /\ subscribing'[r] = None
          /\ \A s \in Requests : s # r => subscribing'[s] = subscribing[s]
          /\ overlapped \subseteq overlapped'
        BY <1>5 DEF Subscribe, TypeOK
    <2>3. ASSUME NEW s \in Requests, s # r, subscribing[s] # None, subscribing[s].org = o
          PROVE  o \in overlapped'
        BY <1>5, <2>3 DEF Subscribe
    <2>4. \A s \in Requests : subscribing[s] # None => subscribing[s].org \in Orgs
        BY DEF TypeOK, Call
    <2> HIDE DEF o
    <2> QED
        BY <2>1, <2>2, <2>3, <2>4 DEF CallsInv
<1>6. CASE UNCHANGED vars
    BY <1>6 DEF vars, CallsInv
<1> QED
    BY <1>1, <1>2, <1>3, <1>4, <1>5, <1>6, Steps

LEMMA InvAlways == Spec => [](TypeOK /\ BillingInv)
<1>1. ASSUME Init PROVE TypeOK /\ BillingInv
    <2>1. Grandfathered \in Row
        BY DEF Row, Grandfathered, Time, PlanTiers, StorageAddOns
    <2> QED
        BY <1>1, <2>1 DEF Init, TypeOK, BillingInv, StampsInv, CallsInv, Time
<1>2. TypeOK /\ BillingInv /\ [Next]_vars => (TypeOK /\ BillingInv)'
    BY TypeStep, StampsStep, CallsStep DEF BillingInv
<1> QED
    BY <1>1, <1>2, PTL DEF Spec

(* Rows, calls and the clock keep their types. *)
THEOREM TypeCorrect == Spec => []TypeOK
    BY InvAlways, PTL

(* What a subscriber paid for is never lost, and dates from the stamp of the first
   answer, unless two subscribe calls overlapped. *)
THEOREM PaidStaysActive == Spec => []NeverLockedOut
<1>1. TypeOK /\ BillingInv => NeverLockedOut
    BY DEF BillingInv, StampsInv, NeverLockedOut, Status, SubscriptionStatus, EffectivePlan
<1> QED
    BY <1>1, InvAlways, PTL

----------------------------------------------------------------------------
LEMMA RowsKept ==
    ASSUME TypeOK, BillingInv, [Next]_vars, NEW o \in Orgs, organizations[o] # None
    PROVE  RowKept(o) /\ now \in Nat /\ now' \in Nat /\ now' >= now
<1>1. organizations[o] \in Row /\ now \in Nat
    BY DEF TypeOK
<1>2. CASE Tick
    BY <1>1, <1>2 DEF Tick, RowKept
<1>3. ASSUME NEW p \in Orgs, Create(p) PROVE RowKept(o) /\ now' = now
    BY <1>1, <1>3, Created DEF RowKept
<1>4. ASSUME NEW p \in Orgs, NEW row, RowChanged(p, row) PROVE RowKept(o) /\ now' = now
    BY <1>1, <1>4 DEF RowChanged, RowKept, TypeOK
<1>5. ASSUME NEW r \in Requests, NEW p \in Orgs, NEW plan \in PlanTiers, Load(r, p, plan)
      PROVE  RowKept(o) /\ now' = now
    BY <1>1, <1>5 DEF Load, RowKept
<1>6. ASSUME NEW r \in Requests, Subscribe(r) PROVE RowKept(o) /\ now' = now
    <2>1. now' = now
        BY <1>6 DEF Subscribe
    <2>2. CASE o = subscribing[r].org
        BY <1>1, <1>6, <2>1, <2>2, Subscribed, NoneApart DEF RowKept
    <2>3. CASE o # subscribing[r].org
        BY <1>1, <1>6, <2>1, <2>3, Subscribed DEF RowKept
    <2> QED
        BY <2>1, <2>2, <2>3
<1>7. CASE UNCHANGED vars
    BY <1>1, <1>7 DEF vars, RowKept
<1> QED
    BY <1>1, <1>2, <1>3, <1>4, <1>5, <1>6, <1>7, Steps

(* A trial ends once and never runs again, whatever happens to the row, and lasts
   as long as it has days left. *)
THEOREM TrialOnce == Spec => TrialRunsOnce
<1>1. ASSUME TypeOK, BillingInv, [Next]_vars, NEW o \in Orgs, organizations[o] # None
      PROVE  /\ Status(o) # "trialing" => Status(o)' # "trialing"
             /\ Status(o) = "active" \/
                    (Status(o) = "trialing" <=> TrialDaysRemaining(organizations[o], now) > 0)
    <2> DEFINE row  == organizations[o]
               row2 == organizations'[o]
    <2>1. /\ row \in Row /\ row2 \in Row /\ now \in Nat /\ now' \in Nat /\ now' >= now
          /\ row2.trialStartedAt = row.trialStartedAt
          /\ row.subscriptionStartedAt # None => row2.subscriptionStartedAt # None
        BY <1>1, RowsKept DEF RowKept
    <2>2. TrialEndsAt(row) = TrialEndsAt(row2)
        BY <2>1 DEF TrialEndsAt
    <2>3. row.trialStartedAt # None => TrialEndsAt(row) \in Nat
        BY <2>1, TrialAssumption DEF TrialEndsAt, Row, Time
    <2>4. /\ Status(o) = SubscriptionStatus(row, now)
          /\ Status(o)' = SubscriptionStatus(row2, now')
        BY DEF Status
    <2> HIDE DEF row, row2
    <2>5. InTrial(row2, now') => InTrial(row, now)
        BY <2>1, <2>2, <2>3 DEF InTrial
    <2>6. Status(o) # "trialing" => Status(o)' # "trialing"
        BY <2>1, <2>4, <2>5 DEF SubscriptionStatus
    <2>7. InTrial(row, now) <=> TrialDaysRemaining(row, now) > 0
        <3>1. CASE InTrial(row, now)
            <4>1. TrialEndsAt(row) - now \in Nat \ {0}
                BY <2>1, <2>3, <3>1 DEF InTrial
            <4> QED
                BY <3>1, <4>1, RoundUpPositive DEF TrialDaysRemaining
        <3>2. CASE ~ InTrial(row, now)
            BY <3>2 DEF TrialDaysRemaining
        <3> QED
            BY <3>1, <3>2
    <2>8. Status(o) = "active" \/ (Status(o) = "trialing" <=> InTrial(row, now))
        BY <2>4 DEF SubscriptionStatus
    <2> QED
        BY <2>6, <2>7, <2>8 DEF row
<1>2. TypeOK /\ BillingInv /\ [Next]_vars =>
          [\A o \in Orgs : organizations[o] # None =>
              /\ Status(o) # "trialing" => Status(o)' # "trialing"
              /\ Status(o) = "active" \/
                    (Status(o) = "trialing" <=> TrialDaysRemaining(organizations[o], now) > 0)]_vars
    BY <1>1
<1> QED
    BY <1>2, InvAlways, PTL DEF Spec, TrialRunsOnce
====
